---- MODULE Spec2Model ----
(***************************************************************************)
(* A model of the gores-mapgen generation engine: the tile grid and its    *)
(* kernel stamping (map.rs), the walker (walker.rs), the generator driver  *)
(* (generator.rs), the post-processing passes (post_processing.rs) and the *)
(* vote handling of the server bridge (bin/ddnet_bridge.rs).               *)
(*                                                                         *)
(* Specifications:                                                         *)
(*   SpecKernel  Map::update applied to one walker position / kernel       *)
(*   SpecEdge    fix_edge_bugs applied to one grid                         *)
(*   SpecFill    fill_open_areas applied to one grid                       *)
(*   SpecBlobs   remove_freeze_blobs applied to one grid                   *)
(*   SpecSkips   generate_all_skips applied to one grid                    *)
(*   Spec        one call of Generator::generate_map                       *)
(*   SpecRuns    two calls of Generator::generate_map, same seed and config *)
(*   SpecWalker  the primary walker's calls of Generator::step, in order   *)
(*   SpecPlatform one call of CuteWalker::check_platform                   *)
(*   SpecCorner  one call of check_corner_skip on a one-row grid           *)
(*   SpecSecondary the secondary walker's calls of Generator::step         *)
(*   SpecSteps   calls of Generator::step, continued after the finish      *)
(*   SpecBridge  the console events of the DDNet server bridge             *)
(***************************************************************************)
EXTENDS Integers, Naturals, Sequences, FiniteSets, TLC

\* fpc, fin, fout: position, arguments and result of a single call of one
\* operation (the single-operation specifications);
\* run, run2: two runs of Generator::generate_map, each with its own Generator
VARIABLES fpc, fin, fout, run, run2

vars == <<fpc, fin, fout, run, run2>>

(***************************************************************************)
(* Bounds of the model                                                     *)
(***************************************************************************)
\* side length of the square grids the single-operation specifications use
KDim == 4
\* largest kernel size stamped in SpecKernel
MaxKernelSize == 4
\* side length of the grids given to edge-bug repair, and how many of them
EdgeDim == 3
MaxGrids == 19683
\* side length of the grids given to the distance-based fill, and the largest
\* max_distance, in half cells
FillDim == 4
MaxDistance2 == 3
\* side length of the grids given to freeze-blob removal (border included),
\* and the largest min_freeze_size
BlobDim == 5
MaxFreezeSize == 4
\* width and height of the maps given to skip generation, and the largest
\* min_spacing_sqr
SkipWidth == 14
SkipHeight == 8
MaxSpacingSqr == 6
\* length of the one-row maps given to a single check_corner_skip call, and
\* the smallest lower and upper tunnel bound tried (the largest is one more)
TunnelLen == 6
MinTunnelLo == 3
MinTunnelHi == 4

(***************************************************************************)
(* map.rs: BlockType, KernelType, Map                                      *)
(***************************************************************************)
BlockType == {"Empty", "Hookable", "Freeze"}

\* the tile kinds walker.rs and generator.rs use beyond those of map.rs
\* (EmptyReserved, Platform, Start, Finish)
AllBlockType == BlockType \cup {"EmptyReserved", "Platform", "Start", "Finish"}

KernelType == {"Outer", "Inner"}

Position(x, y) == [x |-> x, y |-> y]

as_index(pos) == <<pos.x, pos.y>>

Cells(width, height) == (0 .. (width - 1)) \X (0 .. (height - 1))

\* Map::new: a width x height grid filled with `default`
MapNew(width, height, default, spawn) ==
    [grid |-> [c \in Cells(width, height) |-> default],
     width |-> width, height |-> height, spawn |-> spawn]

(***************************************************************************)
(* Kernel (kernel.rs is not part of the sources): a size x size boolean    *)
(* mask.  Circularity 0 is the full square; circularity 1 keeps the cells  *)
(* whose distance from the centre is at most (size-1)/2, the inscribed     *)
(* disc.  Offsets are doubled to stay in the integers.                     *)
(***************************************************************************)
KernelNew(size, circ) == [size |-> size, circularity |-> circ]

KernelActive(kernel, kx, ky) ==
    LET s  == kernel.size
        dx == 2 * kx - (s - 1)
        dy == 2 * ky - (s - 1)
    IN  IF kernel.circularity = 0 THEN TRUE
        ELSE dx * dx + dy * dy <= (s - 1) * (s - 1)

(***************************************************************************)
(* Map::update (map.rs 39-79)                                              *)
(***************************************************************************)
\* the match of map.rs 65-73
NewTypeBuggy(kernel_type, current_type) ==
    IF kernel_type = "Inner" THEN "Empty" ELSE "Freeze"

NewType(kernel_type, current_type) ==
    CASE kernel_type = "Inner" -> "Empty"
      [] kernel_type = "Outer" /\ current_type = "Hookable" -> "Freeze"
      [] kernel_type = "Outer" /\ current_type = "Freeze" -> "Freeze"
      [] kernel_type = "Outer" /\ current_type = "Empty" -> "Empty"
      \* tile kinds map.rs does not list: the void kind is kept, the rest padded
      [] kernel_type = "Outer" /\ current_type = "EmptyReserved" -> "EmptyReserved"
      [] OTHER -> "Freeze"

\* the bounds test of map.rs 51-56
ExceedsBoundsBuggy(m, pos, kernel) ==
    LET offset == kernel.size \div 2
        extend == kernel.size - offset
    IN  \/ pos.x < offset
        \/ pos.y < offset
        \/ (pos.x + extend) > m.width
        \/ (pos.y + extend) > m.height + 1

ExceedsBounds(m, pos, kernel) ==
    LET offset == kernel.size \div 2
        extend == kernel.size - offset
    IN  \/ pos.x < offset
        \/ pos.y < offset
        \/ (pos.x + extend) > m.width
        \/ (pos.y + extend) > m.height

\* the loop of map.rs 61-76 from kernel cell number i on, in indexed_iter
\* order; indexing the grid outside its dimensions panics
RECURSIVE StampFrom(_, _, _, _, _, _)
StampFrom(m, grid, root, kernel, kernel_type, i) ==
    IF i >= kernel.size * kernel.size THEN [status |-> "ok", grid |-> grid]
    ELSE LET kernel_x == i \div kernel.size
             kernel_y == i % kernel.size
             absolute_pos == Position(root.x + kernel_x, root.y + kernel_y)
         IN  IF ~KernelActive(kernel, kernel_x, kernel_y)
             THEN StampFrom(m, grid, root, kernel, kernel_type, i + 1)
             ELSE IF as_index(absolute_pos) \notin Cells(m.width, m.height)
             THEN [status |-> "panic", grid |-> grid]
             ELSE StampFrom(m,
                            [grid EXCEPT ![as_index(absolute_pos)] =
                                NewType(kernel_type, grid[as_index(absolute_pos)])],
                            root, kernel, kernel_type, i + 1)

\* Map::update: [status, err, map]
update(m, pos, kernel, kernel_type) ==
    IF ExceedsBounds(m, pos, kernel)
    THEN [status |-> "err", err |-> "kernel out of bounds", map |-> m]
    ELSE LET offset == kernel.size \div 2
             root_pos == Position(pos.x - offset, pos.y - offset)
             r == StampFrom(m, m.grid, root_pos, kernel, kernel_type, 0)
         IN  [status |-> r.status, err |-> "", map |-> [m EXCEPT !.grid = r.grid]]

(***************************************************************************)
(* Map::apply_kernel(pos, kernel, block_type), as walker.rs 194-212 calls  *)
(* it (its definition is not part of the sources): the stamp of            *)
(* Map::update, the outer rule for Freeze and the inner rule, which forces *)
(* the given void tile, for every other block type.                        *)
(***************************************************************************)
apply_kernel(m, pos, kernel, block_type) ==
    IF block_type = "Freeze" THEN update(m, pos, kernel, "Outer")
    ELSE LET r == update(m, pos, kernel, "Inner")
             offset == kernel.size \div 2
             under(c) == /\ c[1] - (pos.x - offset) \in 0 .. (kernel.size - 1)
                         /\ c[2] - (pos.y - offset) \in 0 .. (kernel.size - 1)
                         /\ KernelActive(kernel, c[1] - (pos.x - offset),
                                          c[2] - (pos.y - offset))
         IN  IF r.status # "ok" THEN r
             ELSE [r EXCEPT !.map.grid =
                      [c \in Cells(m.width, m.height) |->
                          IF under(c) THEN block_type ELSE r.map.grid[c]]]

\* the normal carve of walker.rs 205-212: outer kernel as Freeze, then the
\* inner kernel as the void tile; `?` returns the first error
Carve(m, pos, inner_kernel, outer_kernel, empty) ==
    LET o == apply_kernel(m, pos, outer_kernel, "Freeze")
    IN  IF o.status # "ok" THEN o
        ELSE apply_kernel(o.map, pos, inner_kernel, empty)

(***************************************************************************)
(* Grids for the single-operation specifications.  Every grid over Empty,  *)
(* Hookable and Freeze can be produced from Map::new by size-1 stamps, so  *)
(* each of these is a grid the program can hold.                           *)
(***************************************************************************)
TileOf(n) == CASE n = 0 -> "Empty" [] n = 1 -> "Hookable" [] n = 2 -> "Freeze"

\* Patterns of period 3 along each axis: every cell takes every tile kind
PatternGrid(width, height, a, b, c) ==
    [cell \in Cells(width, height) |-> TileOf((a * cell[1] + b * cell[2] + c) % 3)]

PatternMaps(width, height) ==
    {[grid |-> PatternGrid(width, height, a, b, c),
      width |-> width, height |-> height, spawn |-> Position(0, 0)] :
        a \in 0 .. 2, b \in 0 .. 2, c \in 0 .. 2}

NoOut == [status |-> "none"]

\* no run of generate_map is in progress
NoRun == [pc |-> "none"]

RECURSIVE Pow3(_)
Pow3(n) == IF n = 0 THEN 1 ELSE 3 * Pow3(n - 1)

Min(a, b) == IF a <= b THEN a ELSE b
Max(a, b) == IF a >= b THEN a ELSE b

Digit(n, k) == (n \div Pow3(k)) % 3

\* the grid number n: cell number i = x * height + y holds base-3 digit i of n;
\* from cell 9 on the digits are used again, shifted by one more digit of n
DigitGrid(width, height, n) ==
    [cell \in Cells(width, height) |->
        LET i == cell[1] * height + cell[2]
        IN  TileOf((Digit(n, i % 9) + (i \div 9) * Digit(n, (i \div 9) % 9)) % 3)]

\* all width x height grids when these are at most MaxGrids (and the grid has
\* at most 9 cells), and otherwise the first MaxGrids of the enumeration
GridsOf(width, height) ==
    {DigitGrid(width, height, n) :
        n \in 0 .. (Min(Pow3(Min(width * height, 9)), MaxGrids) - 1)}

MapOf(width, height, grid) ==
    [grid |-> grid, width |-> width, height |-> height, spawn |-> Position(0, 0)]

(***************************************************************************)
(* SpecKernel: one Map::update call on some map, walker position, kernel   *)
(***************************************************************************)
KernelInputs(dim) ==
    [op : {"update"},
     map : PatternMaps(dim, dim),
     pos : {Position(c[1], c[2]) : c \in Cells(dim, dim)},
     kernel : {KernelNew(s, ci) : s \in 1 .. MaxKernelSize, ci \in {0, 1}},
     kernel_type : KernelType]

\* outer kernel = inner kernel plus a margin, as mutate_kernel builds it
CarveInputs(dim) ==
    [op : {"carve"},
     map : PatternMaps(dim, dim),
     pos : {Position(c[1], c[2]) : c \in Cells(dim, dim)},
     kernel : {KernelNew(s, ci) : s \in 1 .. (MaxKernelSize - 2), ci \in {0, 1}},
     margin : {0, 2},
     outer_circ : {0, 1},
     empty : {"Empty", "EmptyReserved"}]

KernelInit ==
    /\ fpc = "ready"
    /\ fin \in KernelInputs(KDim) \cup CarveInputs(KDim)
    /\ fout = NoOut
    /\ run = NoRun
    /\ run2 = NoRun

CallUpdate ==
    /\ fpc = "ready"
    /\ fin.op = "update"
    /\ fout' = update(fin.map, fin.pos, fin.kernel, fin.kernel_type)
    /\ fpc' = "done"
    /\ UNCHANGED <<fin, run, run2>>

CallCarve ==
    /\ fpc = "ready"
    /\ fin.op = "carve"
    /\ fout' = Carve(fin.map, fin.pos, fin.kernel,
                     KernelNew(fin.kernel.size + fin.margin, fin.outer_circ), fin.empty)
    /\ fpc' = "done"
    /\ UNCHANGED <<fin, run, run2>>

KernelNext == CallUpdate \/ CallCarve

SpecKernel == KernelInit /\ [][KernelNext]_vars

(***************************************************************************)
(* Claims about kernel stamping (SpecKernel)                               *)
(***************************************************************************)
\* the square footprint of a kernel at a walker position, in integer
\* coordinates (cells outside the grid included)
Footprint(pos, kernel) ==
    {<<pos.x - (kernel.size \div 2) + kx, pos.y - (kernel.size \div 2) + ky>> :
        kx \in 0 .. (kernel.size - 1), ky \in 0 .. (kernel.size - 1)}

ActiveFootprint(pos, kernel) ==
    {<<pos.x - (kernel.size \div 2) + k[1], pos.y - (kernel.size \div 2) + k[2]>> :
        k \in {kk \in (0 .. (kernel.size - 1)) \X (0 .. (kernel.size - 1)) :
                  KernelActive(kernel, kk[1], kk[2])}}

UpdateDone == fpc = "done" /\ fin.op = "update"

FootprintOutside ==
    \E c \in Footprint(fin.pos, fin.kernel) : c \notin Cells(fin.map.width, fin.map.height)

\* C2: kernel application is all-or-nothing.  If any cell of the kernel's
\* square footprint lies outside the grid, Map::update returns the
\* out-of-bounds error and the grid is the grid it was given; otherwise it
\* succeeds and every cell it changed lies under an active kernel offset.
C2_AllOrNothing ==
    UpdateDone =>
        /\ fout.status \in {"ok", "err"}
        /\ FootprintOutside =>
              /\ fout.status = "err"
              /\ fout.err = "kernel out of bounds"
              /\ fout.map = fin.map
        /\ ~FootprintOutside =>
              /\ fout.status = "ok"
              /\ \A c \in Cells(fin.map.width, fin.map.height) :
                    fout.map.grid[c] # fin.map.grid[c] =>
                        c \in ActiveFootprint(fin.pos, fin.kernel)

\* a rejected stamp part of whose footprint lies on cells it would have changed
C2_Witness ==
    /\ UpdateDone
    /\ fout.status = "err"
    /\ \E c \in ActiveFootprint(fin.pos, fin.kernel) :
          /\ c \in Cells(fin.map.width, fin.map.height)
          /\ NewType(fin.kernel_type, fin.map.grid[c]) # fin.map.grid[c]

CarveDone == fpc = "done" /\ fin.op = "carve"

VoidKind == {"Empty", "EmptyReserved"}

EdgeOffsets == {d \in (0 .. 2) \X (0 .. 2) : ~(d[1] = 1 /\ d[2] = 1)}

\* lines 33-38: checked_sub(1) fails for some offset
EdgeOutOfBounds(x, y) ==
    \E d \in EdgeOffsets : (x + d[1]) - 1 < 0 \/ (y + d[2]) - 1 < 0

\* lines 39-46: some in-grid neighbour is Hookable
IsEdgeBugBuggy(m, grid, x, y) ==
    \E d \in EdgeOffsets :
        /\ d[1] = 1 \/ d[2] = 1
        /\ <<x + d[1] - 1, y + d[2] - 1>> \in Cells(m.width, m.height)
        /\ grid[<<x + d[1] - 1, y + d[2] - 1>>] = "Hookable"

IsEdgeBug(m, grid, x, y) ==
    \E d \in EdgeOffsets :
        /\ (x + d[1]) - 1 < m.width
        /\ (y + d[2]) - 1 < m.height
        /\ grid[<<x + d[1] - 1, y + d[2] - 1>>] = "Hookable"

\* the inner loop of lines 24-54 for column x, from row y on, on the grid as
\* modified so far: st is [status, err, grid, edge_bug]
RECURSIVE EdgeColumn(_, _, _, _)
EdgeColumn(m, st, x, y) ==
    IF y >= m.height \/ st.status # "ok" THEN st
    ELSE IF st.grid[<<x, y>>] # "Empty" THEN EdgeColumn(m, st, x, y + 1)
    ELSE IF EdgeOutOfBounds(x, y)
    THEN [st EXCEPT !.status = "err", !.err = "fix edge bug out of bounds"]
    ELSE IF IsEdgeBug(m, st.grid, x, y)
    THEN EdgeColumn(m, [st EXCEPT !.grid[<<x, y>>] = "Freeze",
                                  !.edge_bug = @ \cup {<<x, y>>}], x, y + 1)
    ELSE EdgeColumn(m, st, x, y + 1)

\* the outer loop of lines 23-55 from column x on
RECURSIVE EdgeFrom(_, _, _)
EdgeFrom(m, st, x) ==
    IF x >= m.width \/ st.status # "ok" THEN st
    ELSE EdgeFrom(m, EdgeColumn(m, st, x, 0), x + 1)

\* fix_edge_bugs: [status, err, map, edge_bug]; the map is modified in place,
\* also when the error is returned
EdgeResult(m, r) ==
    [status |-> r.status, err |-> r.err,
     map |-> [m EXCEPT !.grid = r.grid], edge_bug |-> r.edge_bug]

fix_edge_bugs(m) ==
    EdgeResult(m, EdgeFrom(m, [status |-> "ok", err |-> "", grid |-> m.grid,
                               edge_bug |-> {}], 0))

(***************************************************************************)
(* SpecEdge: one fix_edge_bugs call on some grid                           *)
(***************************************************************************)
EdgeInputs(dim) ==
    {[op |-> "fix_edge_bugs", map |-> MapOf(dim, dim, g)] : g \in GridsOf(dim, dim)}

EdgeInit ==
    /\ fpc = "ready"
    /\ fin \in EdgeInputs(EdgeDim)
    /\ fout = NoOut
    /\ run = NoRun
    /\ run2 = NoRun

CallFixEdgeBugs ==
    /\ fpc = "ready"
    /\ fin.op = "fix_edge_bugs"
    /\ fout' = fix_edge_bugs(fin.map)
    /\ fpc' = "done"
    /\ UNCHANGED <<fin, run, run2>>

EdgeNext == CallFixEdgeBugs

SpecEdge == EdgeInit /\ [][EdgeNext]_vars

(***************************************************************************)
(* Claims about edge-bug repair (SpecEdge)                                 *)
(***************************************************************************)
EdgeDone == fpc = "done" /\ fin.op = "fix_edge_bugs"

\* the in-grid cells among the eight neighbours of c
Neighbours8(m, c) ==
    {n \in Cells(m.width, m.height) :
        /\ n # c
        /\ n[1] - c[1] \in {-1, 0, 1}
        /\ n[2] - c[2] \in {-1, 0, 1}}

\* C7: after a successful edge-bug repair no Empty cell has a Hookable cell
\* among its in-grid eight neighbours.
C7_NoEmptyNextToHookable ==
    (EdgeDone /\ fout.status = "ok") =>
        \A c \in Cells(fin.map.width, fin.map.height) :
            fout.map.grid[c] = "Empty" =>
                \A n \in Neighbours8(fout.map, c) : fout.map.grid[n] # "Hookable"

\* a successful pass that repaired a cell diagonal to a Hookable cell and left
\* an Empty cell next to the repaired one
C7_Witness ==
    /\ EdgeDone
    /\ fout.status = "ok"
    /\ \E c, e \in Cells(fin.map.width, fin.map.height) :
          /\ fin.map.grid[c] = "Empty" /\ fout.map.grid[c] = "Freeze"
          /\ \A n \in Neighbours8(fin.map, c) :
                fin.map.grid[n] = "Hookable" => (n[1] # c[1] /\ n[2] # c[2])
          /\ e \in Neighbours8(fin.map, c)
          /\ fout.map.grid[e] = "Empty"

(***************************************************************************)
(* fill_open_areas (post_processing.rs 62-86; generator.rs 150-174 is the  *)
(* same code as Generator::fill_area).  max_distance is given in half      *)
(* cells (max_distance2 = 2 * max_distance); distances are compared by     *)
(* their squares.                                                          *)
(***************************************************************************)
distance_squared(a, b) ==
    (a[1] - b[1]) * (a[1] - b[1]) + (a[2] - b[2]) * (a[2] - b[2])

Infinite == -1

\* dt_bool of line 63-68 on the mask `val != Empty`: for each cell the
\* (squared) Euclidean distance to the nearest cell of the mask, Infinite
\* when the mask is empty
DistanceTransform(m) ==
    LET solid == {n \in Cells(m.width, m.height) : m.grid[n] # "Empty"}
    IN  [c \in Cells(m.width, m.height) |->
            IF solid = {} THEN Infinite
            ELSE CHOOSE d \in {distance_squared(c, n) : n \in solid} :
                    \A n \in solid : d <= distance_squared(c, n)]

\* line 78: distance > max_distance + SQRT_2, that is
\* 4 d^2 - md2^2 - 8 > 4 sqrt(2) md2
ExceedsPlusSqrt2Buggy(dist2, max_distance2) ==
    \/ dist2 = Infinite
    \/ 4 * dist2 > max_distance2 * max_distance2 + 8

ExceedsPlusSqrt2(dist2, max_distance2) ==
    \/ dist2 = Infinite
    \/ LET lhs == 4 * dist2 - max_distance2 * max_distance2 - 8
       IN  lhs > 0 /\ lhs * lhs > 32 * max_distance2 * max_distance2

\* line 80: distance > max_distance
Exceeds(dist2, max_distance2) ==
    \/ dist2 = Infinite
    \/ 4 * dist2 > max_distance2 * max_distance2

\* the closure of lines 72-83
FillBlock(block_type, dist2, max_distance2) ==
    IF block_type # "Empty" THEN block_type
    ELSE IF ExceedsPlusSqrt2(dist2, max_distance2) THEN "Hookable"
    ELSE IF Exceeds(dist2, max_distance2) THEN "Freeze"
    ELSE block_type

fill_open_areas(m, max_distance2) ==
    LET distance == DistanceTransform(m)
    IN  [map |-> [m EXCEPT !.grid =
                    [c \in Cells(m.width, m.height) |->
                        FillBlock(m.grid[c], distance[c], max_distance2)]],
         distance |-> distance]

(***************************************************************************)
(* SpecFill: one fill_open_areas call on some grid                         *)
(***************************************************************************)
FillInputs(dim) ==
    {[op |-> "fill_open_areas", map |-> MapOf(dim, dim, g), max_distance2 |-> d] :
        g \in GridsOf(dim, dim), d \in 0 .. MaxDistance2}

FillInit ==
    /\ fpc = "ready"
    /\ fin \in FillInputs(FillDim)
    /\ fout = NoOut
    /\ run = NoRun
    /\ run2 = NoRun

CallFillOpenAreas ==
    /\ fpc = "ready"
    /\ fin.op = "fill_open_areas"
    /\ fout' = [status |-> "ok"] @@ fill_open_areas(fin.map, fin.max_distance2)
    /\ fpc' = "done"
    /\ UNCHANGED <<fin, run, run2>>

FillNext == CallFillOpenAreas

SpecFill == FillInit /\ [][FillNext]_vars

(***************************************************************************)
(* Claims about the distance-based fill (SpecFill)                         *)
(***************************************************************************)
FillDone == fpc = "done" /\ fin.op = "fill_open_areas"

\* twice the distance from c to the nearest non-Empty cell of grid is more
\* than bound2 + 2 * extra * sqrt(2), for extra 0 or 1 (Infinite: no such cell)
FartherThan(m, grid, c, bound2, extra) ==
    \A n \in Cells(m.width, m.height) :
        grid[n] # "Empty" =>
            LET d2 == 4 * distance_squared(c, n)
                rest == d2 - bound2 * bound2 - 8 * extra
            IN  /\ rest > 0
                /\ extra = 1 => rest * rest > 32 * bound2 * bound2

\* C8: with d the distance to the nearest non-Empty cell before the pass, an
\* Empty cell with d > max_distance + sqrt(2) becomes Hookable, one with
\* max_distance < d <= max_distance + sqrt(2) becomes Freeze, every other
\* cell is unchanged; afterwards no Empty cell is farther than
\* max_distance + sqrt(2) from a non-Empty cell.
C8_DistanceFill ==
    FillDone =>
        \A c \in Cells(fin.map.width, fin.map.height) :
            LET before == fin.map.grid[c]
                after == fout.map.grid[c]
                far == FartherThan(fin.map, fin.map.grid, c, fin.max_distance2, 1)
                beyond == FartherThan(fin.map, fin.map.grid, c, fin.max_distance2, 0)
            IN  /\ before # "Empty" => after = before
                /\ (before = "Empty" /\ far) => after = "Hookable"
                /\ (before = "Empty" /\ beyond /\ ~far) => after = "Freeze"
                /\ (before = "Empty" /\ ~beyond) => after = "Empty"
                /\ after = "Empty" =>
                      ~FartherThan(fout.map, fout.map.grid, c, fin.max_distance2, 1)

\* a fill of a grid that has non-Empty cells in which one Empty cell became
\* Hookable, one Freeze, and one stayed Empty
C8_Witness ==
    /\ FillDone
    /\ \E n \in Cells(fin.map.width, fin.map.height) : fin.map.grid[n] # "Empty"
    /\ \E a, b, c \in Cells(fin.map.width, fin.map.height) :
          /\ fin.map.grid[a] = "Empty" /\ fout.map.grid[a] = "Hookable"
          /\ fin.map.grid[b] = "Empty" /\ fout.map.grid[b] = "Freeze"
          /\ fin.map.grid[c] = "Empty" /\ fout.map.grid[c] = "Empty"

(***************************************************************************)
(* remove_freeze_blobs (post_processing.rs 472-586)                        *)
(***************************************************************************)
\* BlockType::is_solid and BlockType::is_freeze (not part of the sources)
is_solid(block_type) == block_type = "Hookable"

is_freeze(block_type) == block_type = "Freeze"

Last(seq) == seq[Len(seq)]

Front(seq) == SubSeq(seq, 1, Len(seq) - 1)

SeqRange(seq) == {seq[k] : k \in 1 .. Len(seq)}

\* the loop of lines 519-553 over the 3x3 window around pos from window cell
\* number k on (win_x outer, win_y inner): [unconnected, next]
\* the window loop without the abort of lines 541-544: a neighbour already
\* known to be connected is passed over
RECURSIVE WindowScanBuggy(_, _, _, _, _)
WindowScanBuggy(grid, invalid, pos, next, k) ==
    IF k > 8 THEN [unconnected |-> TRUE, next |-> next]
    ELSE LET win_x == k \div 3
             win_y == k % 3
             abs_pos == <<pos[1] + win_x - 1, pos[2] + win_y - 1>>
             other_block_type == grid[abs_pos]
         IN  IF win_x = 1 /\ win_y = 1 THEN WindowScanBuggy(grid, invalid, pos, next, k + 1)
             ELSE IF is_solid(other_block_type)
             THEN [unconnected |-> FALSE, next |-> next]
             ELSE IF ~is_freeze(other_block_type) \/ invalid[abs_pos] # "None"
             THEN WindowScanBuggy(grid, invalid, pos, next, k + 1)
             ELSE WindowScanBuggy(grid, invalid, pos, Append(next, abs_pos), k + 1)

RECURSIVE WindowScan(_, _, _, _, _)
WindowScan(grid, invalid, pos, next, k) ==
    IF k > 8 THEN [unconnected |-> TRUE, next |-> next]
    ELSE LET win_x == k \div 3
             win_y == k % 3
             abs_pos == <<pos[1] + win_x - 1, pos[2] + win_y - 1>>
             other_block_type == grid[abs_pos]
         IN  IF win_x = 1 /\ win_y = 1 THEN WindowScan(grid, invalid, pos, next, k + 1)
             ELSE IF is_solid(other_block_type)
             THEN [unconnected |-> FALSE, next |-> next]
             ELSE IF ~is_freeze(other_block_type)
             THEN WindowScan(grid, invalid, pos, next, k + 1)
             ELSE IF invalid[abs_pos] = "SomeTrue"
             THEN [unconnected |-> FALSE, next |-> next]
             ELSE IF invalid[abs_pos] = "SomeFalse"
             THEN WindowScan(grid, invalid, pos, next, k + 1)
             ELSE WindowScan(grid, invalid, pos, Append(next, abs_pos), k + 1)

\* get_window (lines 459-469) slices x-1..=x+1, y-1..=y+1: outside the grid
\* the subtraction or the slice panics
WindowInGrid(m, pos) ==
    /\ pos[1] - 1 >= 0 /\ pos[1] + 1 <= m.width - 1
    /\ pos[2] - 1 >= 0 /\ pos[2] + 1 <= m.height - 1

\* line 557: one more cell of the blob
BlobSizeAfterBuggy(blob_size, visited, pos) == blob_size + 2

BlobSizeAfter(blob_size, visited, pos) == blob_size + 1

\* the while loop of lines 513-558
RECURSIVE Flood(_, _, _, _, _, _)
Flood(m, grid, invalid, visited, next, blob_size) ==
    IF next = << >>
    THEN [status |-> "ok", unconnected |-> TRUE, invalid |-> invalid,
          visited |-> visited, next |-> next, blob_size |-> blob_size]
    ELSE LET pos == Last(next)
             invalid1 == [invalid EXCEPT ![pos] = "SomeFalse"]
         IN  IF ~WindowInGrid(m, pos)
             THEN [status |-> "panic", unconnected |-> TRUE, invalid |-> invalid1,
                   visited |-> visited, next |-> Front(next), blob_size |-> blob_size]
             ELSE LET w == WindowScan(grid, invalid1, pos, Front(next), 0)
                      visited1 == Append(visited, pos)
                      size1 == BlobSizeAfter(blob_size, visited, pos)
                  IN  IF ~w.unconnected
                      THEN [status |-> "ok", unconnected |-> FALSE, invalid |-> invalid1,
                            visited |-> visited1, next |-> w.next, blob_size |-> size1]
                      ELSE Flood(m, grid, invalid1, visited1, w.next, size1)

\* the loops of lines 482-585 from interior cell number i on (x outer, y inner)
RECURSIVE BlobScan(_, _, _, _, _)
BlobScan(m, grid, invalid, min_freeze_size, i) ==
    IF i >= (m.width - 2) * (m.height - 2) THEN [status |-> "ok", grid |-> grid]
    ELSE LET x == 1 + (i \div (m.height - 2))
             y == 1 + (i % (m.height - 2))
             block_type == grid[<<x, y>>]
         IN  IF invalid[<<x, y>>] # "None"
             THEN BlobScan(m, grid, invalid, min_freeze_size, i + 1)
             ELSE IF block_type = "Hookable"
             THEN BlobScan(m, grid,
                           [c \in DOMAIN invalid |->
                               IF c[1] \in (x - 1) .. (x + 1) /\ c[2] \in (y - 1) .. (y + 1)
                               THEN "SomeTrue" ELSE invalid[c]],
                           min_freeze_size, i + 1)
             ELSE IF block_type # "Freeze"
             THEN BlobScan(m, grid, invalid, min_freeze_size, i + 1)
             ELSE LET f == Flood(m, grid, invalid, << >>, << <<x, y>> >>, 0)
                  IN  IF f.status = "panic" THEN [status |-> "panic", grid |-> grid]
                      ELSE IF ~f.unconnected
                      THEN BlobScan(m, grid,
                                    [c \in DOMAIN invalid |->
                                        IF c \in SeqRange(f.visited) \cup SeqRange(f.next)
                                        THEN "SomeTrue" ELSE f.invalid[c]],
                                    min_freeze_size, i + 1)
                      ELSE BlobScan(m,
                                    [c \in DOMAIN grid |->
                                        IF c \in SeqRange(f.visited)
                                           /\ f.blob_size < min_freeze_size
                                        THEN "Empty" ELSE grid[c]],
                                    f.invalid, min_freeze_size, i + 1)

remove_freeze_blobs(m, min_freeze_size) ==
    LET r == BlobScan(m, m.grid, [c \in Cells(m.width, m.height) |-> "None"],
                      min_freeze_size, 0)
    IN  [status |-> r.status, map |-> [m EXCEPT !.grid = r.grid]]

(***************************************************************************)
(* SpecBlobs: one remove_freeze_blobs call.  The interior of the grid runs *)
(* over the enumerated grids; the border is Empty throughout, or mixed.    *)
(***************************************************************************)
BorderedGrid(dim, inner, border) ==
    [c \in Cells(dim, dim) |->
        IF c[1] \in 1 .. (dim - 2) /\ c[2] \in 1 .. (dim - 2)
        THEN inner[<<c[1] - 1, c[2] - 1>>]
        ELSE IF border = 0 THEN "Empty" ELSE TileOf((c[1] + 2 * c[2]) % 3)]

BlobInputs(dim) ==
    {[op |-> "remove_freeze_blobs",
      map |-> MapOf(dim, dim, BorderedGrid(dim, g, b)),
      min_freeze_size |-> n] :
        g \in GridsOf(dim - 2, dim - 2), b \in {0, 1}, n \in 1 .. MaxFreezeSize}

BlobInit ==
    /\ fpc = "ready"
    /\ fin \in BlobInputs(BlobDim)
    /\ fout = NoOut
    /\ run = NoRun
    /\ run2 = NoRun

CallRemoveFreezeBlobs ==
    /\ fpc = "ready"
    /\ fin.op = "remove_freeze_blobs"
    /\ fout' = remove_freeze_blobs(fin.map, fin.min_freeze_size)
    /\ fpc' = "done"
    /\ UNCHANGED <<fin, run, run2>>

BlobNext == CallRemoveFreezeBlobs

SpecBlobs == BlobInit /\ [][BlobNext]_vars

(***************************************************************************)
(* Claims about freeze-blob removal (SpecBlobs)                            *)
(***************************************************************************)
BlobDone == fpc = "done" /\ fin.op = "remove_freeze_blobs"

FreezeCells(m) == {c \in Cells(m.width, m.height) : m.grid[c] = "Freeze"}

\* the Freeze cells reachable from the cells of `comp` through Freeze cells,
\* neighbours taken from nbrs(c)
RECURSIVE Reach(_, _, _)
Reach(m, comp, diagonal) ==
    LET more == {n \in FreezeCells(m) \ comp :
                    \E c \in comp :
                        /\ n \in Neighbours8(m, c)
                        /\ diagonal \/ n[1] = c[1] \/ n[2] = c[2]}
    IN  IF more = {} THEN comp ELSE Reach(m, comp \cup more, diagonal)

\* the connected component of a Freeze cell, by the eight-cell window the
\* flood fill scans
Component(m, c) == Reach(m, {c}, TRUE)

TouchesHookable(m, comp) ==
    \E c \in comp : \E n \in Neighbours8(m, c) : m.grid[n] = "Hookable"

\* C10: every connected component of Freeze cells with no member adjacent to
\* a Hookable cell and with fewer than min_freeze_size cells has all of its
\* cells set to Empty by remove_freeze_blobs.
C10_SmallBlobsRemoved ==
    (BlobDone /\ fout.status = "ok") =>
        \A c \in FreezeCells(fin.map) :
            LET comp == Component(fin.map, c)
            IN  (/\ ~TouchesHookable(fin.map, comp)
                 /\ Cardinality(comp) < fin.min_freeze_size)
                    => fout.map.grid[c] = "Empty"

(***************************************************************************)
(* Position and Map helpers the skip passes use (position.rs and the       *)
(* Map methods set_area / count_occurence_in_area are not part of the      *)
(* sources)                                                                *)
(***************************************************************************)
ShiftDirection == {"Up", "Right", "Down", "Left"}

\* Position::shift_in_direction: one cell in the direction, an error when
\* that leaves the map
shift_in_direction(pos, shift, m) ==
    LET valid == CASE shift = "Up" -> pos.y > 0
                   [] shift = "Right" -> pos.x < m.width - 1
                   [] shift = "Down" -> pos.y < m.height - 1
                   [] shift = "Left" -> pos.x > 0
        moved == CASE shift = "Up" -> Position(pos.x, pos.y - 1)
                   [] shift = "Right" -> Position(pos.x + 1, pos.y)
                   [] shift = "Down" -> Position(pos.x, pos.y + 1)
                   [] shift = "Left" -> Position(pos.x - 1, pos.y)
    IN  IF valid THEN [ok |-> TRUE, pos |-> moved] ELSE [ok |-> FALSE, pos |-> pos]

\* Position::shifted_by: an error when a coordinate would become negative
shifted_by(pos, x_shift, y_shift) ==
    IF pos.x + x_shift < 0 \/ pos.y + y_shift < 0
    THEN [ok |-> FALSE, pos |-> pos]
    ELSE [ok |-> TRUE, pos |-> Position(pos.x + x_shift, pos.y + y_shift)]

pos_in_bounds(m, pos) == pos.x < m.width /\ pos.y < m.height

pos_distance_squared(a, b) == distance_squared(as_index(a), as_index(b))

Area(top_left, bot_right) ==
    (top_left.x .. bot_right.x) \X (top_left.y .. bot_right.y)

\* Map::count_occurence_in_area: an error when a corner is outside the map
count_occurence_in_area(m, top_left, bot_right, value) ==
    IF ~pos_in_bounds(m, top_left) \/ ~pos_in_bounds(m, bot_right)
    THEN [ok |-> FALSE, count |-> 0]
    ELSE [ok |-> TRUE,
          count |-> Cardinality({c \in Area(top_left, bot_right) : m.grid[c] = value})]

\* Overwrite::will_override
will_override(overwrite, block_type) ==
    CASE overwrite = "ReplaceSolidFreeze" -> block_type \in {"Hookable", "Freeze"}
      [] overwrite = "ReplaceSolidOnly" -> block_type = "Hookable"
      [] overwrite = "ReplaceEmptyOnly" -> block_type = "Empty"
      [] overwrite = "Force" -> TRUE

\* Map::set_area: nothing is written when a corner is outside the map
set_area(m, top_left, bot_right, value, overwrite) ==
    IF ~pos_in_bounds(m, top_left) \/ ~pos_in_bounds(m, bot_right) THEN m
    ELSE [m EXCEPT !.grid =
            [c \in Cells(m.width, m.height) |->
                IF c \in Area(top_left, bot_right) /\ will_override(overwrite, m.grid[c])
                THEN value ELSE m.grid[c]]]

(***************************************************************************)
(* find_corners (post_processing.rs 89-208)                                *)
(***************************************************************************)
\* the eight shapes of lines 108-197: window cells and direction
Shapes ==
    << [cells |-> {<<2, 3>>, <<3, 0>>, <<3, 1>>, <<3, 2>>, <<3, 3>>}, dir |-> "Right"],
       [cells |-> {<<2, 1>>, <<3, 1>>, <<3, 2>>, <<3, 3>>, <<3, 4>>}, dir |-> "Right"],
       [cells |-> {<<2, 3>>, <<1, 0>>, <<1, 1>>, <<1, 2>>, <<1, 3>>}, dir |-> "Left"],
       [cells |-> {<<2, 1>>, <<1, 1>>, <<1, 2>>, <<1, 3>>, <<1, 4>>}, dir |-> "Left"],
       [cells |-> {<<3, 2>>, <<0, 1>>, <<1, 1>>, <<2, 1>>, <<3, 1>>}, dir |-> "Up"],
       [cells |-> {<<1, 2>>, <<1, 1>>, <<2, 1>>, <<3, 1>>, <<4, 1>>}, dir |-> "Up"],
       [cells |-> {<<3, 2>>, <<0, 3>>, <<1, 3>>, <<2, 3>>, <<3, 3>>}, dir |-> "Down"],
       [cells |-> {<<1, 2>>, <<1, 3>>, <<2, 3>>, <<3, 3>>, <<4, 3>>}, dir |-> "Down"] >>

\* lines 199-203 for one window, from shape number k on
RECURSIVE ShapeMatches(_, _, _, _)
ShapeMatches(m, window_x, window_y, k) ==
    IF k > Len(Shapes) THEN << >>
    ELSE LET rest == ShapeMatches(m, window_x, window_y, k + 1)
             all_freeze == \A w \in Shapes[k].cells :
                              m.grid[<<window_x - 2 + w[1], window_y - 2 + w[2]>>] = "Freeze"
         IN  IF all_freeze
             THEN << [pos |-> Position(window_x, window_y), dir |-> Shapes[k].dir] >> \o rest
             ELSE rest

\* the loops of lines 97-205 from window number i on (window_x outer)
RECURSIVE CornersFrom(_, _)
CornersFrom(m, i) ==
    IF i >= (m.width - 4) * (m.height - 4) THEN << >>
    ELSE LET window_x == 2 + (i \div (m.height - 4))
             window_y == 2 + (i % (m.height - 4))
         IN  IF m.grid[<<window_x, window_y>>] # "Empty" THEN CornersFrom(m, i + 1)
             ELSE ShapeMatches(m, window_x, window_y, 1) \o CornersFrom(m, i + 1)

find_corners(m) == CornersFrom(m, 0)

(***************************************************************************)
(* check_corner_skip (post_processing.rs 218-265)                          *)
(***************************************************************************)
NoSkip == << >>

\* the match of lines 235-250; 0 - 1 stands for `return None`
NextStageBuggy(stage, curr_block_type) ==
    CASE stage \in {0, 1} /\ curr_block_type = "Freeze" -> 1
      [] stage \in {0, 1, 2} /\ curr_block_type = "Hookable" -> 2
      [] stage \in {2, 3} /\ curr_block_type = "Freeze" -> 3
      [] stage = 3 /\ curr_block_type = "Empty" -> 4
      [] OTHER -> 0 - 1

NextStage(stage, curr_block_type) ==
    CASE stage \in {0, 1} /\ curr_block_type = "Freeze" -> 1
      [] stage \in {1, 2} /\ curr_block_type = "Hookable" -> 2
      [] stage \in {2, 3} /\ curr_block_type = "Freeze" -> 3
      [] stage = 3 /\ curr_block_type = "Empty" -> 4
      [] OTHER -> 0 - 1

\* the while loop of lines 228-253: [ok, pos, length, stage]
RECURSIVE SkipWalk(_, _, _, _, _, _)
SkipWalk(m, pos, shift, tunnel_hi, length, stage) ==
    IF ~(stage # 4 /\ length < tunnel_hi)
    THEN [ok |-> TRUE, pos |-> pos, length |-> length, stage |-> stage]
    ELSE LET s == shift_in_direction(pos, shift, m)
         IN  IF ~s.ok THEN [ok |-> FALSE, pos |-> pos, length |-> length, stage |-> stage]
             ELSE LET next_stage == NextStage(stage, m.grid[as_index(s.pos)])
                  IN  IF next_stage < 0
                      THEN [ok |-> FALSE, pos |-> s.pos, length |-> length, stage |-> stage]
                      ELSE SkipWalk(m, s.pos, shift, tunnel_hi, length + 1, next_stage)

\* check_corner_skip: << skip >> for Some(skip), << >> for None
check_corner_skip(m, init_pos, shift, tunnel_bounds) ==
    LET w == SkipWalk(m, init_pos, shift, tunnel_bounds[2], 0, 0)
    IN  IF w.ok /\ w.stage = 4 /\ w.length > tunnel_bounds[1]
        THEN << [start_pos |-> init_pos, end_pos |-> w.pos,
                 length |-> w.length, direction |-> shift] >>
        ELSE NoSkip

(***************************************************************************)
(* count_skip_neighbours (post_processing.rs 267-313); `?` and the caller's *)
(* unwrap_or(0) make every failure count as 0                              *)
(***************************************************************************)
SkipTopLeft(skip) ==
    Position(Min(skip.start_pos.x, skip.end_pos.x), Min(skip.start_pos.y, skip.end_pos.y))

SkipBotRight(skip) ==
    Position(Max(skip.start_pos.x, skip.end_pos.x), Max(skip.start_pos.y, skip.end_pos.y))

\* count_occurence_in_area on the skip rectangle shifted by (dx, dy)
ShiftedCount(m, skip, dx, dy) ==
    LET a == shifted_by(SkipTopLeft(skip), dx, dy)
        b == shifted_by(SkipBotRight(skip), dx, dy)
    IN  IF ~a.ok \/ ~b.ok THEN [ok |-> FALSE, count |-> 0]
        ELSE count_occurence_in_area(m, a.pos, b.pos, "Hookable")

\* count_skip_neighbours(...).unwrap_or(0)
count_skip_neighbours_or_0(m, skip, offset) ==
    LET first == IF skip.direction \in {"Left", "Right"}
                 THEN ShiftedCount(m, skip, 0, offset)
                 ELSE ShiftedCount(m, skip, 0 - offset, 0)
        second == IF skip.direction \in {"Left", "Right"}
                  THEN ShiftedCount(m, skip, 0, 0 - offset)
                  ELSE ShiftedCount(m, skip, offset, 0)
    IN  IF ~first.ok \/ ~second.ok THEN 0 ELSE Min(first.count, second.count)

(***************************************************************************)
(* generate_skip (post_processing.rs 315-367)                              *)
(***************************************************************************)
generate_skip(m, skip, block_type) ==
    LET top_left == SkipTopLeft(skip)
        bot_right == SkipBotRight(skip)
        m1 == set_area(m, top_left, bot_right, block_type, "ReplaceSolidFreeze")
        dx == IF skip.direction \in {"Left", "Right"} THEN 0 ELSE 1
        dy == IF skip.direction \in {"Left", "Right"} THEN 1 ELSE 0
        m2 == set_area(m1, shifted_by(top_left, 0 - dx, 0 - dy).pos,
                       shifted_by(bot_right, 0 - dx, 0 - dy).pos,
                       "Freeze", "ReplaceSolidOnly")
        m3 == set_area(m2, shifted_by(top_left, dx, dy).pos,
                       shifted_by(bot_right, dx, dy).pos,
                       "Freeze", "ReplaceSolidOnly")
    IN  IF is_freeze(block_type) THEN [status |-> "ok", map |-> m1]
        ELSE IF ~shifted_by(top_left, 0 - dx, 0 - dy).ok
        THEN [status |-> "panic", map |-> m1]
        ELSE [status |-> "ok", map |-> m3]

(***************************************************************************)
(* generate_all_skips (post_processing.rs 376-457)                         *)
(***************************************************************************)
\* lines 385-390: the skips of the corner candidates from number k on
RECURSIVE PossibleSkips(_, _, _, _)
PossibleSkips(m, corner_candidates, length_bounds, k) ==
    IF k > Len(corner_candidates) THEN << >>
    ELSE check_corner_skip(m, corner_candidates[k].pos, corner_candidates[k].dir,
                           length_bounds)
         \o PossibleSkips(m, corner_candidates, length_bounds, k + 1)

\* line 393, sort_unstable_by length: the orders of the indices `left` of
\* skips that are ascending in length; skips of equal length come in any order
RECURSIVE SortedOrders(_, _)
SortedOrders(skips, left) ==
    IF left = {} THEN {<< >>}
    ELSE UNION {{<< skips[k] >> \o rest : rest \in SortedOrders(skips, left \ {k})} :
                  k \in {j \in left : \A o \in left : skips[j].length <= skips[o].length}}

\* lines 423-426
TooCloseBuggy(skip, skip_other, min_spacing_sqr) ==
    \/ pos_distance_squared(skip.start_pos, skip_other.start_pos) < min_spacing_sqr
    \/ pos_distance_squared(skip.end_pos, skip_other.end_pos) < min_spacing_sqr

TooClose(skip, skip_other, min_spacing_sqr) ==
    \/ pos_distance_squared(skip.start_pos, skip_other.start_pos) < min_spacing_sqr
    \/ pos_distance_squared(skip.start_pos, skip_other.end_pos) < min_spacing_sqr
    \/ pos_distance_squared(skip.end_pos, skip_other.start_pos) < min_spacing_sqr
    \/ pos_distance_squared(skip.end_pos, skip_other.end_pos) < min_spacing_sqr

\* one iteration of the loop of lines 395-431: the status vector after it
SelectStep(m, skips, skip_status, min_spacing_sqr, skip_index) ==
    LET skip == skips[skip_index]
        far == count_skip_neighbours_or_0(m, skip, 2) <= 0
        near == count_skip_neighbours_or_0(m, skip, 1) >= 1
    IN  IF skip_status[skip_index] = "Invalid" THEN skip_status
        ELSE IF far /\ ~near THEN [skip_status EXCEPT ![skip_index] = "Invalid"]
        ELSE [other_index \in 1 .. Len(skips) |->
                IF /\ other_index > skip_index
                   /\ TooClose(skip, skips[other_index], min_spacing_sqr)
                THEN "Invalid"
                ELSE IF other_index = skip_index /\ far THEN "ValidFreezeSkipOnly"
                ELSE skip_status[other_index]]

\* the loop of lines 395-431 from skip_index on: `trace` extended by the
\* status vector after each iteration, the last one being the final status
RECURSIVE SelectFrom(_, _, _, _, _)
SelectFrom(m, skips, trace, min_spacing_sqr, skip_index) ==
    IF skip_index > Len(skips) THEN trace
    ELSE SelectFrom(m, skips,
                    Append(trace, SelectStep(m, skips, trace[Len(trace)],
                                             min_spacing_sqr, skip_index)),
                    min_spacing_sqr, skip_index + 1)

\* the loop of lines 434-442 from skip_index on: [status, map, carved]
RECURSIVE CarveSkipsFrom(_, _, _, _, _)
CarveSkipsFrom(m, skips, skip_status, carved, skip_index) ==
    IF skip_index > Len(skips) THEN [status |-> "ok", map |-> m, carved |-> carved]
    ELSE IF skip_status[skip_index] = "Invalid"
    THEN CarveSkipsFrom(m, skips, skip_status, carved, skip_index + 1)
    ELSE LET g == generate_skip(m, skips[skip_index],
                     IF skip_status[skip_index] = "Valid" THEN "Empty" ELSE "Freeze")
         IN  IF g.status # "ok"
             THEN [status |-> g.status, map |-> g.map, carved |-> carved]
             ELSE CarveSkipsFrom(g.map, skips, skip_status,
                                 Append(carved, skip_index), skip_index + 1)

UnsortedSkips(m, length_bounds) ==
    PossibleSkips(m, find_corners(m), length_bounds, 1)

\* generate_all_skips with the sorted order the sort produced
generate_all_skips(m, length_bounds, min_spacing_sqr, skips) ==
    LET initial == [k \in 1 .. Len(skips) |-> "Valid"]
        trace == SelectFrom(m, skips, << initial >>, min_spacing_sqr, 1)
        skip_status == trace[Len(trace)]
        c == CarveSkipsFrom(m, skips, skip_status, << >>, 1)
    IN  [status |-> c.status, map |-> c.map, skips |-> skips,
         skip_status |-> skip_status, status_trace |-> trace, carved |-> c.carved]

(***************************************************************************)
(* SpecSkips: one generate_all_skips call on a map holding two rooms, each *)
(* carved by the walker's outer-then-inner stamp into a Hookable map       *)
(***************************************************************************)
TwoRooms(width, height, dx, dy) ==
    LET m0 == MapNew(width, height, "Hookable", Position(3, 3))
        a == Carve(m0, Position(3, 3), KernelNew(3, 0), KernelNew(5, 0), "Empty")
        b == Carve(a.map, Position(9 + dx, 3 + dy), KernelNew(3, 0), KernelNew(5, 0), "Empty")
    IN  b.map

SkipInputs(width, height) ==
    {[op |-> "generate_all_skips", map |-> TwoRooms(width, height, dx, dy),
      length_bounds |-> lb, min_spacing_sqr |-> sp] :
        dx \in 0 .. 1, dy \in {0 - 1, 0, 1},
        lb \in {<<2, 4>>, <<3, 5>>, <<4, 6>>}, sp \in 0 .. MaxSpacingSqr}

SkipInit ==
    /\ fpc = "ready"
    /\ fin \in SkipInputs(SkipWidth, SkipHeight)
    /\ fout = NoOut
    /\ run = NoRun
    /\ run2 = NoRun

CallGenerateAllSkips ==
    /\ fpc = "ready"
    /\ fin.op = "generate_all_skips"
    /\ LET unsorted == UnsortedSkips(fin.map, fin.length_bounds)
       IN  \E skips \in SortedOrders(unsorted, 1 .. Len(unsorted)) :
              fout' = generate_all_skips(fin.map, fin.length_bounds,
                                         fin.min_spacing_sqr, skips)
    /\ fpc' = "done"
    /\ UNCHANGED <<fin, run, run2>>

SkipNext == CallGenerateAllSkips

SpecSkips == SkipInit /\ [][SkipNext]_vars

(***************************************************************************)
(* Claims about skip selection (SpecSkips)                                 *)
(***************************************************************************)
SkipsDone == fpc = "done" /\ fin.op = "generate_all_skips"

\* C9: every two distinct skips that generate_all_skips carves have all four
\* endpoint distances (squared) at least min_spacing_sqr, the carved skips
\* are exactly those whose final status is not Invalid, and a candidate that
\* was marked Invalid at some point of the selection stays Invalid.
C9_AcceptedSkipsSpaced ==
    SkipsDone =>
        /\ \A i, j \in SeqRange(fout.carved) :
              i # j =>
                 LET a == fout.skips[i]
                     b == fout.skips[j]
                 IN  /\ pos_distance_squared(a.start_pos, b.start_pos) >= fin.min_spacing_sqr
                     /\ pos_distance_squared(a.start_pos, b.end_pos) >= fin.min_spacing_sqr
                     /\ pos_distance_squared(a.end_pos, b.start_pos) >= fin.min_spacing_sqr
                     /\ pos_distance_squared(a.end_pos, b.end_pos) >= fin.min_spacing_sqr
        /\ \A t \in 1 .. Len(fout.status_trace) : \A i \in 1 .. Len(fout.skips) :
              fout.status_trace[t][i] = "Invalid" =>
                 /\ i \notin SeqRange(fout.carved)
                 /\ \A u \in t .. Len(fout.status_trace) :
                       fout.status_trace[u][i] = "Invalid"
        /\ fout.status = "ok" =>
              SeqRange(fout.carved) = {i \in 1 .. Len(fout.skips) : fout.skip_status[i] # "Invalid"}

\* two skips carved and a third candidate invalidated for lying too close
C9_Witness ==
    /\ SkipsDone
    /\ fout.status = "ok"
    /\ fin.min_spacing_sqr > 0
    /\ Len(fout.carved) >= 2
    /\ \E k \in 1 .. Len(fout.skips) : \E i \in SeqRange(fout.carved) :
          /\ k > i
          /\ fout.skip_status[k] = "Invalid"
          /\ TooClose(fout.skips[i], fout.skips[k], fin.min_spacing_sqr)

(***************************************************************************)
(* Bounds of the generator model.  The program's map is 300 x 300, its     *)
(* start kernels have sizes 5 and 7, its rooms half sizes 4 and 5, and it  *)
(* locks the position of 100 steps ago; the model keeps the code and       *)
(* scales these numbers down.                                              *)
(***************************************************************************)
\* Map::new(300, 300, ..) of generator.rs 33
MapWidth == 14
MapHeight == 14
\* Kernel::new(5, 0.0) and Kernel::new(7, 0.0) of generator.rs 34-35
InitInnerSize == 1
InitOuterSize == 3
\* the delay 100 of walker.rs 184
LockDelay == 5
\* room size 4 and platform margin 3 of generator.rs 179, 182
RoomSize == 2
RoomMargin == 1
\* the shift 6, room size 5 and platform margin 3 of walker.rs 104
ForcedRoomShift == 2
ForcedRoomSize == 1
ForcedRoomMargin == 0
\* the step budgets and the number of seeds of the runs explored
MaxSteps == 24
NumSeeds == 16
\* the console events the bridge reads in one run
MaxEvents == 6
\* the calls of step made after the primary walker has finished
IdleSteps == 3
\* the number of seeds of the secondary walker's runs
NumSecondarySeeds == 256
\* the 100 iterations of the resample loop, walker.rs 159
Retries == 6
\* width and height of the maps given to a single check_platform call, and
\* the largest platform distance bound
PlatWidth == 8
PlatHeight == 7
MaxPlatformDistance == 2

(***************************************************************************)
(* Random (random.rs is not part of the sources).  The stream is a pure    *)
(* function of the seed: a 16-bit linear congruential generator whose      *)
(* draws are the high byte of the state.  `draws` counts the draws made.   *)
(* The record carries the distributions Random::new takes from the config. *)
(***************************************************************************)
\* Random::new(seed, config)
RandomNew(seed, config) ==
    [state |-> (seed * 20021 + 7) % 65536,
     draws |-> 0,
     shift_weights |-> config.shift_weights,
     inner_size_probs |-> config.inner_size_probs,
     outer_margin_probs |-> config.outer_margin_probs,
     circ_probs |-> config.circ_probs]

\* one draw: [value, rnd], value in 0 .. 255
next_u32(rnd) ==
    LET s == (25173 * rnd.state + 13849) % 65536
    IN  [value |-> s \div 256,
         rnd |-> [rnd EXCEPT !.state = s, !.draws = @ + 1]]

\* Random::skip_n
RECURSIVE skip_n(_, _)
skip_n(rnd, n) == IF n = 0 THEN rnd ELSE skip_n(next_u32(rnd).rnd, n - 1)

\* Random::with_probability(p), p in percent: one draw whatever the outcome
with_probability(rnd, probability) ==
    LET d == next_u32(rnd)
    IN  [value |-> d.value * 100 < 256 * probability, rnd |-> d.rnd]

\* a weighted choice from a sequence of <<value, weight>> pairs
RECURSIVE TotalWeight(_)
TotalWeight(dist) ==
    IF dist = << >> THEN 0 ELSE dist[1][2] + TotalWeight(Tail(dist))

RECURSIVE PickWeighted(_, _)
PickWeighted(dist, target) ==
    IF Len(dist) = 1 \/ target < dist[1][2] THEN dist[1][1]
    ELSE PickWeighted(Tail(dist), target - dist[1][2])

\* the sample_* helpers: two draws each
SampleDist(rnd, dist) ==
    LET d1 == next_u32(rnd)
        d2 == next_u32(d1.rnd)
    IN  [value |-> PickWeighted(dist, (d1.value + d2.value) % TotalWeight(dist)),
         rnd |-> d2.rnd]

sample_inner_kernel_size(rnd) == SampleDist(rnd, rnd.inner_size_probs)

sample_outer_kernel_margin(rnd) == SampleDist(rnd, rnd.outer_margin_probs)

sample_circularity(rnd) == SampleDist(rnd, rnd.circ_probs)

\* Random::sample_shift(ordered_shifts): index i with weight shift_weights[i]
sample_shift(rnd, shifts) ==
    LET d == SampleDist(rnd, [i \in 1 .. 4 |-> <<i, rnd.shift_weights[i]>>])
    IN  [value |-> shifts[d.value], rnd |-> d.rnd]

\* Seed::from_random(rnd): a seed drawn from the parent stream.  `env` is
\* the entropy of the process (what a fully random seed would be read
\* from); a derived seed does not depend on it.
SeedFromEntropy(rnd, env) ==
    LET d == next_u32(rnd)
    IN  [seed |-> env, rnd |-> d.rnd]

from_random(rnd, env) ==
    LET d == next_u32(rnd)
    IN  [seed |-> d.rnd.state, rnd |-> d.rnd]

(***************************************************************************)
(* GenerationConfig (config.rs is not part of the sources): the fields the *)
(* walker and the generator read.  Probabilities are in percent, the       *)
(* distributions are sequences of <<value, weight>>, max_distance is in    *)
(* half cells.  The four mutation probabilities are the parameters.        *)
(***************************************************************************)
GenerationConfig(waypoints, inner_size, outer_size, inner_rad, outer_rad) ==
    [waypoints |-> waypoints,
     waypoint_reached_dist |-> 2,
     inner_size_mut_prob |-> inner_size,
     outer_size_mut_prob |-> outer_size,
     inner_rad_mut_prob |-> inner_rad,
     outer_rad_mut_prob |-> outer_rad,
     inner_size_probs |-> <<<<1, 3>>, <<2, 1>>>>,
     outer_margin_probs |-> <<<<0, 1>>, <<2, 3>>>>,
     circ_probs |-> <<<<0, 1>>, <<1, 1>>>>,
     shift_weights |-> <<6, 2, 1, 1>>,
     momentum_prob |-> 40,
     enable_pulse |-> TRUE,
     pulse_straight_delay |-> 1,
     pulse_corner_delay |-> 2,
     pulse_max_kernel_size |-> 1,
     fade_steps |-> 3,
     platform_distance_bounds |-> <<3, 6>>,
     max_distance |-> 3]

\* the waypoints of the runs: along the bottom of the map and up its right
\* side for the primary walker, up the left side and along the top for the
\* preset "skips"
MainWaypoints ==
    <<Position(MapWidth - 5, MapHeight - RoomSize - 3), Position(MapWidth - 5, 4)>>

SkipWaypoints ==
    <<Position(RoomSize + 2, 4), Position(MapWidth - 5, 4)>>

\* GenerationConfig::get_configs(): the presets by name
get_configs ==
    [default |-> GenerationConfig(MainWaypoints, 50, 50, 25, 25),
     skips |-> GenerationConfig(SkipWaypoints, 30, 60, 0, 100)]

\* GenerationConfig::validate, Ok for every configuration of the model
validate(config) == [status |-> "ok", err |-> ""]

\* the largest value of a distribution (walker.rs 309-316)
RECURSIVE MaxValue(_)
MaxValue(dist) ==
    IF Len(dist) = 1 THEN dist[1][1]
    ELSE Max(dist[1][1], MaxValue(Tail(dist)))

(***************************************************************************)
(* CuteWalker (walker.rs).  An Option is a sequence: << >> is None and     *)
(* <<v>> is Some(v).  locked_positions is the set-valued function of the   *)
(* Array2<bool>; position_history is the Vec, 1-based here.                *)
(***************************************************************************)
None == << >>

Some(v) == <<v>>

\* CuteWalker::new (walker.rs 45-67); waypoints.first().unwrap() panics on
\* an empty list, which no configuration of the model has
CuteWalkerNew(initial_pos, inner_kernel, outer_kernel, waypoints, m) ==
    [pos |-> initial_pos,
     steps |-> 0,
     inner_kernel |-> inner_kernel,
     outer_kernel |-> outer_kernel,
     goal |-> Some(waypoints[1]),
     goal_index |-> 0,
     waypoints |-> waypoints,
     finished |-> FALSE,
     steps_since_platform |-> 0,
     last_shift |-> None,
     pulse_counter |-> 0,
     locked_positions |-> [c \in Cells(m.width, m.height) |-> FALSE],
     position_history |-> << >>]

\* CuteWalker::is_goal_reached (walker.rs 69-73): an Option<bool>
is_goal_reached(walker, waypoint_reached_dist) ==
    IF walker.goal = None THEN None
    ELSE Some(pos_distance_squared(walker.goal[1], walker.pos) <= waypoint_reached_dist)

\* CuteWalker::next_waypoint (walker.rs 75-83); waypoints.get(goal_index + 1)
\* is the element number goal_index + 2 of the 1-based sequence
next_waypointBuggy(walker) ==
    IF walker.goal_index + 2 <= Len(walker.waypoints)
    THEN [walker EXCEPT !.goal_index = @ + 1,
                        !.goal = Some(walker.waypoints[walker.goal_index + 2])]
    ELSE [walker EXCEPT !.finished = TRUE]

next_waypoint(walker) ==
    IF walker.goal_index + 2 <= Len(walker.waypoints)
    THEN [walker EXCEPT !.goal_index = @ + 1,
                        !.goal = Some(walker.waypoints[walker.goal_index + 2])]
    ELSE [walker EXCEPT !.finished = TRUE, !.goal = None]

(***************************************************************************)
(* CuteWalker::mutate_kernel (walker.rs 245-298):                          *)
(* [status, err, walker, rnd]                                              *)
(***************************************************************************)
MutateResult(status, err, walker, rnd) ==
    [status |-> status, err |-> err, walker |-> walker, rnd |-> rnd]

\* one of the four blocks of lines 253-279, p being the outcome of its
\* with_probability and sampled what its sample_* call returns:
\* [modified, value, rnd]
MutateSampledBuggy(p, current, sampled) ==
    IF p.value
    THEN [modified |-> TRUE, value |-> sampled.value, rnd |-> sampled.rnd]
    ELSE [modified |-> FALSE, value |-> current, rnd |-> p.rnd]

MutateSampled(p, current, sampled) ==
    IF p.value
    THEN [modified |-> TRUE, value |-> sampled.value, rnd |-> sampled.rnd]
    ELSE [modified |-> FALSE, value |-> current, rnd |-> skip_n(p.rnd, 2)]

\* lines 253-258
InnerSizeBlock(walker, p) ==
    MutateSampled(p, walker.inner_kernel.size, sample_inner_kernel_size(p.rnd))

\* lines 260-265; the current margin is that of line 250
OuterMarginBlock(walker, p) ==
    MutateSampled(p, walker.outer_kernel.size - walker.inner_kernel.size,
                  sample_outer_kernel_margin(p.rnd))

\* lines 267-272
InnerCircBlock(walker, p) ==
    MutateSampled(p, walker.inner_kernel.circularity, sample_circularity(p.rnd))

\* lines 274-279
OuterCircBlock(walker, p) ==
    MutateSampled(p, walker.outer_kernel.circularity, sample_circularity(p.rnd))

\* line 281
OuterSizeBuggy(inner_size, outer_margin) == outer_margin

OuterSize(inner_size, outer_margin) == inner_size + outer_margin

\* lines 283-289: small kernels are full squares
ConstrainCirc(size, circ) == IF size <= 3 THEN 0 ELSE circ

\* lines 281-297, with the outcomes of the four blocks
MutateFinish(walker, is, om, ic, oc) ==
    LET modified == is.modified \/ om.modified \/ ic.modified \/ oc.modified
        inner_size == is.value
        outer_size == OuterSize(is.value, om.value)
    IN  IF ~(outer_size >= inner_size)
        THEN \* the assertion of line 292 fails
             MutateResult("panic", "assertion failed: outer_size >= inner_size",
                          walker, oc.rnd)
        ELSE IF modified
        THEN MutateResult("ok", "",
                 [walker EXCEPT
                    !.inner_kernel =
                        KernelNew(inner_size, ConstrainCirc(inner_size, ic.value)),
                    !.outer_kernel =
                        KernelNew(outer_size, ConstrainCirc(outer_size, oc.value))],
                 oc.rnd)
        ELSE MutateResult("ok", "", walker, oc.rnd)

\* lines 274-297, the first three blocks done
MutateOuterCirc(walker, config, is, om, ic) ==
    MutateFinish(walker, is, om, ic,
                 OuterCircBlock(walker,
                                with_probability(ic.rnd, config.outer_rad_mut_prob)))

\* lines 267-297, the first two blocks done
MutateInnerCirc(walker, config, is, om) ==
    MutateOuterCirc(walker, config, is, om,
                    InnerCircBlock(walker,
                                   with_probability(om.rnd, config.inner_rad_mut_prob)))

\* lines 260-297, the first block done
MutateOuterMargin(walker, config, is) ==
    MutateInnerCirc(walker, config, is,
                    OuterMarginBlock(walker,
                                     with_probability(is.rnd, config.outer_size_mut_prob)))

mutate_kernel(walker, config, rnd) ==
    IF walker.outer_kernel.size < walker.inner_kernel.size
    THEN \* line 250: the unsigned subtraction underflows
         MutateResult("panic", "attempt to subtract with overflow", walker, rnd)
    ELSE MutateOuterMargin(walker, config,
                           InnerSizeBlock(walker,
                                          with_probability(rnd, config.inner_size_mut_prob)))

(***************************************************************************)
(* CuteWalker::lock_previous_location (walker.rs 300-340):                 *)
(* [status, err, walker]                                                   *)
(***************************************************************************)
\* lines 334-339: every cell of the slice is set to true
LockWindowBuggy(locked_positions, top_left, bot_right) ==
    [c \in DOMAIN locked_positions |-> c \in Area(top_left, bot_right)]

LockWindow(locked_positions, top_left, bot_right) ==
    [c \in DOMAIN locked_positions |->
        IF c \in Area(top_left, bot_right) THEN TRUE ELSE locked_positions[c]]

lock_previous_location(walker, delay, m, gen_config) ==
    IF Len(walker.position_history) <= delay
    THEN [status |-> "ok", err |-> "", walker |-> walker]
    ELSE IF walker.steps < delay
    THEN \* line 306: steps - delay underflows
         [status |-> "panic", err |-> "attempt to subtract with overflow",
          walker |-> walker]
    ELSE IF walker.steps - delay >= Len(walker.position_history)
    THEN [status |-> "panic", err |-> "index out of bounds", walker |-> walker]
    ELSE LET previous_pos == walker.position_history[walker.steps - delay + 1]
             max_kernel_size == MaxValue(gen_config.inner_size_probs)
             offset == max_kernel_size
             extend == (max_kernel_size * 2) - offset
             top_left == shifted_by(previous_pos, -offset, -offset)
             bot_right == shifted_by(previous_pos, extend, extend)
         IN  IF ~top_left.ok \/ ~bot_right.ok
             THEN \* the unwrap of line 323 or 326
                  [status |-> "panic", err |-> "called unwrap on an Err value",
                   walker |-> walker]
             ELSE IF ~pos_in_bounds(m, top_left.pos) \/ ~pos_in_bounds(m, bot_right.pos)
             THEN [status |-> "ok", err |-> "", walker |-> walker]
             ELSE [status |-> "ok", err |-> "",
                   walker |-> [walker EXCEPT !.locked_positions =
                                  LockWindow(@, top_left.pos, bot_right.pos)]]

(***************************************************************************)
(* Position::get_rated_shifts (position.rs is not part of the sources):    *)
(* the four directions in the stable order of their squared distance to    *)
(* the goal after the shift, a shift that leaves the map rated worst       *)
(***************************************************************************)
ShiftRating(pos, shift, goal, m) ==
    LET t == shift_in_direction(pos, shift, m)
    IN  IF t.ok THEN pos_distance_squared(t.pos, goal)
        ELSE 2 * (m.width * m.width + m.height * m.height)

\* stable insertion of a shift into a sequence sorted by rating
RECURSIVE InsertRated(_, _, _, _, _)
InsertRated(sorted, shift, pos, goal, m) ==
    IF sorted = << >> THEN <<shift>>
    ELSE IF ShiftRating(pos, shift, goal, m) < ShiftRating(pos, Last(sorted), goal, m)
    THEN Append(InsertRated(Front(sorted), shift, pos, goal, m), Last(sorted))
    ELSE Append(sorted, shift)

get_rated_shifts(pos, goal, m) ==
    LET s1 == InsertRated(<< >>, "Left", pos, goal, m)
        s2 == InsertRated(s1, "Up", pos, goal, m)
        s3 == InsertRated(s2, "Right", pos, goal, m)
    IN  InsertRated(s3, "Down", pos, goal, m)

(***************************************************************************)
(* CuteWalker::probabilistic_step (walker.rs 128-224):                     *)
(* [status, err, walker, map, rnd].  An error or a panic leaves what was   *)
(* written before it.  The stages are operators so that each value is      *)
(* computed once and handed on.                                            *)
(***************************************************************************)
StepResult(status, err, walker, m, rnd) ==
    [status |-> status, err |-> err, walker |-> walker, map |-> m, rnd |-> rnd]

\* a pulse as soon as the counter has reached the delay
PerformPulseBuggy(walker, gen_config, same_dir) ==
    /\ gen_config.enable_pulse
    /\ \/ same_dir /\ walker.pulse_counter >= gen_config.pulse_straight_delay
       \/ ~same_dir /\ walker.pulse_counter >= gen_config.pulse_corner_delay

\* lines 186-189
PerformPulse(walker, gen_config, same_dir) ==
    /\ gen_config.enable_pulse
    /\ \/ same_dir /\ walker.pulse_counter > gen_config.pulse_straight_delay
       \/ ~same_dir /\ walker.pulse_counter > gen_config.pulse_corner_delay

\* lines 215-221, after the kernels were applied
FinishStep(walker, m, gen_config, rnd, current_shift, same_dir) ==
    StepResult("ok", "",
        [walker EXCEPT
           !.pulse_counter =
               IF same_dir /\ walker.inner_kernel.size <= gen_config.pulse_max_kernel_size
               THEN @ + 1 ELSE 0,
           !.last_shift = Some(current_shift)],
        m, rnd)

\* the result k of an apply_kernel call: its error is returned (`?`)
AfterKernels(walker, k, gen_config, rnd, current_shift, same_dir) ==
    IF k.status # "ok" THEN StepResult(k.status, k.err, walker, k.map, rnd)
    ELSE FinishStep(walker, k.map, gen_config, rnd, current_shift, same_dir)

\* lines 199-203: the second stamp of a pulse, f being the result of the first
PulseInner(walker, f, gen_config, rnd, current_shift, same_dir) ==
    IF f.status # "ok" THEN StepResult(f.status, f.err, walker, f.map, rnd)
    ELSE AfterKernels(walker,
                      apply_kernel(f.map, walker.pos,
                                   KernelNew(walker.inner_kernel.size + 2, 0), "Empty"),
                      gen_config, rnd, current_shift, same_dir)

\* lines 192-213
ApplyKernels(walker, m, gen_config, rnd, current_shift, same_dir) ==
    IF PerformPulse(walker, gen_config, same_dir)
    THEN PulseInner([walker EXCEPT !.pulse_counter = 0],
                    apply_kernel(m, walker.pos,
                                 KernelNew(walker.inner_kernel.size + 4, 0), "Freeze"),
                    gen_config, rnd, current_shift, same_dir)
    ELSE AfterKernels(walker,
                      Carve(m, walker.pos, walker.inner_kernel, walker.outer_kernel,
                            IF walker.steps < gen_config.fade_steps
                            THEN "EmptyReserved" ELSE "Empty"),
                      gen_config, rnd, current_shift, same_dir)

\* line 184, locked being the result of lock_previous_location
AfterLock(locked, m, gen_config, rnd, current_shift, same_dir) ==
    IF locked.status # "ok"
    THEN StepResult(locked.status, locked.err, locked.walker, m, rnd)
    ELSE ApplyKernels(locked.walker, m, gen_config, rnd, current_shift, same_dir)

\* lines 180-184, moved being the walker after the shift was applied
LockStage(moved, m, gen_config, rnd, current_shift, same_dir) ==
    AfterLock(lock_previous_location(moved, LockDelay, m, gen_config),
              m, gen_config, rnd, current_shift, same_dir)

\* lines 173-223, with the shift that was selected
CommitStep(walker, m, gen_config, rnd, current_shift) ==
    IF ~shift_in_direction(walker.pos, current_shift, m).ok
    THEN StepResult("err", "invalid shift", walker, m, rnd)
    ELSE LockStage([walker EXCEPT
                      !.pos = shift_in_direction(walker.pos, current_shift, m).pos,
                      !.steps = @ + 1],
                   m, gen_config, rnd, current_shift,
                   walker.last_shift # None /\ current_shift = walker.last_shift[1])

\* the loop of lines 159-167 from iteration i on, and lines 169-180
RECURSIVE ResampleFrom(_, _, _, _, _, _, _, _, _)
\* lines 163-165, s being the new sample
Resampled(walker, m, gen_config, shifts, s, i) ==
    IF ~shift_in_direction(walker.pos, s.value, m).ok
    THEN StepResult("err", "invalid shift", walker, m, s.rnd)
    ELSE ResampleFrom(walker, m, gen_config, shifts, s.value,
                      shift_in_direction(walker.pos, s.value, m).pos, s.rnd, TRUE, i + 1)

\* the loop with the move committed once the iterations are used up, whether
\* the last target examined was locked or not
ResampleFromBuggy(walker, m, gen_config, shifts, current_shift, target_pos, rnd, invalid, i) ==
    IF i >= Retries
    THEN CommitStep(walker, m, gen_config, rnd, current_shift)
    ELSE IF ~walker.locked_positions[as_index(target_pos)]
    THEN ResampleFrom(walker, m, gen_config, shifts, current_shift,
                      target_pos, rnd, FALSE, i + 1)
    ELSE Resampled(walker, m, gen_config, shifts, sample_shift(rnd, shifts), i)

ResampleFrom(walker, m, gen_config, shifts, current_shift, target_pos, rnd, invalid, i) ==
    IF i >= Retries
    THEN IF invalid THEN StepResult("err", "Walker got stuck :(", walker, m, rnd)
         ELSE CommitStep(walker, m, gen_config, rnd, current_shift)
    ELSE IF ~walker.locked_positions[as_index(target_pos)]
    THEN ResampleFrom(walker, m, gen_config, shifts, current_shift,
                      target_pos, rnd, FALSE, i + 1)
    ELSE Resampled(walker, m, gen_config, shifts, sample_shift(rnd, shifts), i)

\* lines 154-155: the first target
FirstTarget(walker, m, gen_config, shifts, current_shift, rnd) ==
    IF ~shift_in_direction(walker.pos, current_shift, m).ok
    THEN StepResult("err", "invalid shift", walker, m, rnd)
    ELSE ResampleFrom(walker, m, gen_config, shifts, current_shift,
                      shift_in_direction(walker.pos, current_shift, m).pos,
                      rnd, FALSE, 0)

\* lines 148-152, p being the outcome of with_probability
Momentum(walker, m, gen_config, shifts, sampled, p) ==
    FirstTarget(walker, m, gen_config, shifts,
                IF p.value THEN walker.last_shift[1] ELSE sampled, p.rnd)

\* lines 145-152, s being the sampled shift
Sampled(walker, m, gen_config, shifts, s) ==
    IF walker.last_shift # None
    THEN Momentum(walker, m, gen_config, shifts, s.value,
                  with_probability(s.rnd, gen_config.momentum_prob))
    ELSE FirstTarget(walker, m, gen_config, shifts, s.value, s.rnd)

\* lines 142-145, shifts being the rated shifts
SampleShift(walker, m, gen_config, rnd, shifts) ==
    Sampled(walker, m, gen_config, shifts, sample_shift(rnd, shifts))

\* lines 139-143, the walker having pushed its position to the history
AfterPush(walker, m, gen_config, rnd) ==
    IF walker.goal = None
    THEN StepResult("err", "Error: Goal is None", walker, m, rnd)
    ELSE SampleShift(walker, m, gen_config, rnd,
                     get_rated_shifts(walker.pos, walker.goal[1], m))

\* the step without line 139: the position is not saved to the history
probabilistic_stepBuggy(walker, m, gen_config, rnd) ==
    IF walker.finished THEN StepResult("err", "Walker is finished", walker, m, rnd)
    ELSE AfterPush(walker, m, gen_config, rnd)

probabilistic_step(walker, m, gen_config, rnd) ==
    IF walker.finished THEN StepResult("err", "Walker is finished", walker, m, rnd)
    ELSE AfterPush([walker EXCEPT !.position_history = Append(@, walker.pos)],
                   m, gen_config, rnd)

(***************************************************************************)
(* Map::check_area_all and generate_room (not part of the sources)         *)
(***************************************************************************)
\* Map::check_area_all: whether every cell of the rectangle holds `value`,
\* an error when a corner is outside the map
check_area_all(m, top_left, bot_right, value) ==
    IF ~pos_in_bounds(m, top_left) \/ ~pos_in_bounds(m, bot_right)
    THEN [ok |-> FALSE, value |-> FALSE]
    ELSE [ok |-> TRUE,
          value |-> \A c \in Area(top_left, bot_right) : m.grid[c] = value]

\* the border cells of a rectangle
AreaBorder(top_left, bot_right) ==
    {c \in Area(top_left, bot_right) :
        \/ c[1] \in {top_left.x, bot_right.x}
        \/ c[2] \in {top_left.y, bot_right.y}}

\* generate_room(map, pos, room_size, platform_margin, zone_type): a square
\* room of reserved emptiness around pos with a platform strip on its floor;
\* with a zone type, the border of the square at distance platform_margin is
\* the start or finish line.  An error when the room leaves the map.
generate_room(m, pos, room_size, platform_margin, zone_type) ==
    LET top_left == shifted_by(pos, -room_size, -room_size)
        bot_right == shifted_by(pos, room_size, room_size)
        strip == room_size - platform_margin
        carved == set_area(m, top_left.pos, bot_right.pos, "EmptyReserved", "Force")
        floored == set_area(carved,
                            Position(pos.x - strip, pos.y + room_size),
                            Position(pos.x + strip, pos.y + room_size),
                            "Platform", "Force")
        zoned == IF zone_type = None THEN floored
                 ELSE [floored EXCEPT !.grid =
                         [c \in Cells(m.width, m.height) |->
                             IF c \in AreaBorder(Position(pos.x - platform_margin,
                                                          pos.y - platform_margin),
                                                 Position(pos.x + platform_margin,
                                                          pos.y + platform_margin))
                             THEN zone_type[1] ELSE floored.grid[c]]]
    IN  IF ~top_left.ok \/ ~bot_right.ok \/ ~pos_in_bounds(m, bot_right.pos)
        THEN [status |-> "err", err |-> "generate room out of bounds", map |-> m]
        ELSE [status |-> "ok", err |-> "", map |-> zoned]

(***************************************************************************)
(* CuteWalker::check_platform (walker.rs 87-126): [status, err, walker, map] *)
(***************************************************************************)
PlatformResult(status, err, walker, m) ==
    [status |-> status, err |-> err, walker |-> walker, map |-> m]

\* the platform strip written whether or not the clearance rectangle is
\* entirely Empty
check_platformBuggy(walker, m, min_distance, max_distance) ==
    LET w1 == [walker EXCEPT !.steps_since_platform = @ + 1]
        walker_pos == w1.pos
        below == shifted_by(walker_pos, 0, ForcedRoomShift)
        room == generate_room(m, below.pos, ForcedRoomSize, ForcedRoomMargin, None)
        a == shifted_by(walker_pos, -3, -3)
        b == shifted_by(walker_pos, 3, 2)
        area_empty == check_area_all(m, a.pos, b.pos, "Empty")
        left == shifted_by(walker_pos, -1, 0)
        right == shifted_by(walker_pos, 1, 0)
    IN  IF w1.steps_since_platform < min_distance
        THEN PlatformResult("ok", "", w1, m)
        ELSE IF w1.steps_since_platform > max_distance
        THEN IF ~below.ok THEN PlatformResult("err", "invalid shift", w1, m)
             ELSE IF room.status # "ok" THEN PlatformResult("err", room.err, w1, m)
             ELSE PlatformResult("ok", "", [w1 EXCEPT !.steps_since_platform = 0],
                                 room.map)
        ELSE IF ~a.ok \/ ~b.ok THEN PlatformResult("err", "invalid shift", w1, m)
        ELSE IF ~area_empty.ok THEN PlatformResult("err", "area out of bounds", w1, m)
        ELSE IF ~left.ok \/ ~right.ok THEN PlatformResult("err", "invalid shift", w1, m)
        ELSE PlatformResult("ok", "", [w1 EXCEPT !.steps_since_platform = 0],
                            set_area(m, left.pos, right.pos, "Platform",
                                     "ReplaceEmptyOnly"))

check_platform(walker, m, min_distance, max_distance) ==
    LET w1 == [walker EXCEPT !.steps_since_platform = @ + 1]
        walker_pos == w1.pos
        below == shifted_by(walker_pos, 0, ForcedRoomShift)
        room == generate_room(m, below.pos, ForcedRoomSize, ForcedRoomMargin, None)
        a == shifted_by(walker_pos, -3, -3)
        b == shifted_by(walker_pos, 3, 2)
        area_empty == check_area_all(m, a.pos, b.pos, "Empty")
        left == shifted_by(walker_pos, -1, 0)
        right == shifted_by(walker_pos, 1, 0)
    IN  IF w1.steps_since_platform < min_distance
        THEN PlatformResult("ok", "", w1, m)
        ELSE IF w1.steps_since_platform > max_distance
        THEN IF ~below.ok THEN PlatformResult("err", "invalid shift", w1, m)
             ELSE IF room.status # "ok" THEN PlatformResult("err", room.err, w1, m)
             ELSE PlatformResult("ok", "", [w1 EXCEPT !.steps_since_platform = 0],
                                 room.map)
        ELSE IF ~a.ok \/ ~b.ok THEN PlatformResult("err", "invalid shift", w1, m)
        ELSE IF ~area_empty.ok THEN PlatformResult("err", "area out of bounds", w1, m)
        ELSE IF ~area_empty.value THEN PlatformResult("ok", "", w1, m)
        ELSE IF ~left.ok \/ ~right.ok THEN PlatformResult("err", "invalid shift", w1, m)
        ELSE PlatformResult("ok", "", [w1 EXCEPT !.steps_since_platform = 0],
                            set_area(m, left.pos, right.pos, "Platform",
                                     "ReplaceEmptyOnly"))

(***************************************************************************)
(* Generator (generator.rs)                                                *)
(***************************************************************************)
\* generator.rs 32, placed so that the start room fits the scaled map
Spawn == Position(RoomSize + 2, MapHeight - RoomSize - 3)

\* generator.rs 48: the seed of the secondary stream, [seed, rnd]
SecondarySeedBuggy(rnd, env) == SeedFromEntropy(rnd, env)

SecondarySeed(rnd, env) == from_random(rnd, env)

\* generator.rs 36-59, with the map and the derived seed
GeneratorWith(config, m, derived) ==
    [walker |-> CuteWalkerNew(m.spawn, KernelNew(InitInnerSize, 0),
                              KernelNew(InitOuterSize, 0), config.waypoints, m),
     walker2 |-> Some(CuteWalkerNew(m.spawn, KernelNew(InitInnerSize, 0),
                                    KernelNew(InitOuterSize, 0),
                                    get_configs.skips.waypoints, m)),
     map |-> m,
     rnd |-> derived.rnd,
     rnd2 |-> RandomNew(derived.seed, get_configs.skips)]

\* Generator::new (generator.rs 31-61); `env` is the entropy of the process
GeneratorNew(config, seed, env) ==
    GeneratorWith(config, MapNew(MapWidth, MapHeight, "Hookable", Spawn),
                  SecondarySeed(RandomNew(seed, config), env))

\* the goal given up for the next one wherever the walker is
AdvanceGoalBuggy(walker, config) ==
    IF walker.finished THEN walker ELSE next_waypoint(walker)

\* generator.rs 64-72: a walker whose goal is reached turns to the next one
AdvanceGoal(walker, config) ==
    IF is_goal_reached(walker, config.waypoint_reached_dist) = Some(TRUE)
    THEN next_waypoint(walker) ELSE walker

GenResult(status, err, gen) == [status |-> status, err |-> err, gen |-> gen]

\* generator.rs 95-102, p being the result of check_platform
AfterPlatform(gen, p) ==
    GenResult(p.status, p.err, [gen EXCEPT !.walker = p.walker, !.map = p.map])

\* generator.rs 94-99
HandlePlatforms(gen, config) ==
    AfterPlatform(gen, check_platform(gen.walker, gen.map,
                                      config.platform_distance_bounds[1],
                                      config.platform_distance_bounds[2]))

\* generator.rs 91-93, s2 being the result of the secondary walker's step:
\* its error is discarded, a panic is not
AfterStep2(gen, config, s2) ==
    IF s2.status = "panic"
    THEN GenResult("panic", s2.err,
                   [gen EXCEPT !.walker2 = Some(s2.walker), !.map = s2.map,
                               !.rnd2 = s2.rnd])
    ELSE HandlePlatforms([gen EXCEPT !.walker2 = Some(s2.walker), !.map = s2.map,
                                     !.rnd2 = s2.rnd], config)

\* generator.rs 88-93, s1 being the result of the primary walker's step
AfterStep1(gen, config, s1) ==
    IF s1.status # "ok"
    THEN GenResult(s1.status, s1.err,
                   [gen EXCEPT !.walker = s1.walker, !.map = s1.map, !.rnd = s1.rnd])
    ELSE IF gen.walker2 = None
    THEN HandlePlatforms([gen EXCEPT !.walker = s1.walker, !.map = s1.map,
                                     !.rnd = s1.rnd], config)
    ELSE AfterStep2([gen EXCEPT !.walker = s1.walker, !.map = s1.map,
                                !.rnd = s1.rnd],
                    config,
                    probabilistic_step(gen.walker2[1], s1.map, get_configs.skips,
                                       gen.rnd2))

\* generator.rs 87-89
StepPrimary(gen, config) ==
    AfterStep1(gen, config,
               probabilistic_step(gen.walker, gen.map, config, gen.rnd))

\* generator.rs 84-86, m2 being the result of the secondary mutate_kernel
AfterMutate2(gen, config, m2) ==
    IF m2.status # "ok"
    THEN GenResult(m2.status, m2.err,
                   [gen EXCEPT !.walker2 = Some(m2.walker), !.rnd2 = m2.rnd])
    ELSE StepPrimary([gen EXCEPT !.walker2 = Some(m2.walker), !.rnd2 = m2.rnd],
                     config)

\* generator.rs 82-86, m1 being the result of the primary mutate_kernel
AfterMutate1(gen, config, m1) ==
    IF m1.status # "ok"
    THEN GenResult(m1.status, m1.err,
                   [gen EXCEPT !.walker = m1.walker, !.rnd = m1.rnd])
    ELSE IF gen.walker2 = None
    THEN StepPrimary([gen EXCEPT !.walker = m1.walker, !.rnd = m1.rnd], config)
    ELSE AfterMutate2([gen EXCEPT !.walker = m1.walker, !.rnd = m1.rnd], config,
                      mutate_kernel(gen.walker2[1], get_configs.skips, gen.rnd2))

\* generator.rs 77-100, the primary walker not being finished
StepWalkers(gen, config) ==
    IF validate(config).status # "ok" THEN GenResult("err", validate(config).err, gen)
    ELSE AfterMutate1(gen, config, mutate_kernel(gen.walker, config, gen.rnd))

\* generator.rs 74-102, the goals having been advanced
AfterGoals(gen, config) ==
    IF ~gen.walker.finished THEN StepWalkers(gen, config)
    ELSE GenResult("ok", "", gen)

\* the finished test of line 77 left out for a generator that was finished
\* before the call
GeneratorStepBuggy(gen, config) ==
    IF gen.walker.finished /\ gen.walker2 # None
    THEN AfterMutate2(gen, config,
                      mutate_kernel(gen.walker2[1], get_configs.skips, gen.rnd2))
    ELSE AfterGoals([gen EXCEPT
                       !.walker = AdvanceGoal(@, config),
                       !.walker2 = IF @ = None THEN @ ELSE Some(AdvanceGoal(@[1], config))],
                    config)

\* Generator::step (generator.rs 63-103): [status, err, gen]
GeneratorStep(gen, config) ==
    AfterGoals([gen EXCEPT
                  !.walker = AdvanceGoal(@, config),
                  !.walker2 = IF @ = None THEN @ ELSE Some(AdvanceGoal(@[1], config))],
               config)

\* the outcome of post_processing: [status, err, gen, passes], `passes` being
\* the passes that have completed, in the order they were made
PassResult(status, err, gen, passes) ==
    [status |-> status, err |-> err, gen |-> gen, passes |-> passes]

\* generator.rs 185, finish being the result of the second generate_room
FillArea(gen, config, finish) ==
    IF finish.status # "ok"
    THEN PassResult("panic", "start finish room generation",
                    [gen EXCEPT !.map = finish.map],
                    <<"fix_edge_bugs", "generate_room Start">>)
    ELSE PassResult("ok", "",
                    [gen EXCEPT !.map = fill_open_areas(finish.map, config.max_distance).map],
                    <<"fix_edge_bugs", "generate_room Start", "generate_room Finish",
                      "fill_area">>)

\* generator.rs 181-183, start being the result of the first generate_room
FinishRoom(gen, config, start) ==
    IF start.status # "ok"
    THEN PassResult("panic", "start room generation failed",
                    [gen EXCEPT !.map = start.map], <<"fix_edge_bugs">>)
    ELSE FillArea(gen, config,
                  generate_room(start.map, gen.walker.pos, RoomSize, RoomMargin,
                                Some("Finish")))

\* generator.rs 178-180, edge being the result of fix_edge_bugs
StartRoom(gen, config, edge) ==
    IF edge.status # "ok"
    THEN PassResult("panic", "fix edge bugs failed", [gen EXCEPT !.map = edge.map],
                    << >>)
    ELSE FinishRoom(gen, config,
                    generate_room(edge.map, edge.map.spawn, RoomSize, RoomMargin,
                                  Some("Start")))

\* Generator::post_processing (generator.rs 176-189): [status, err, gen,
\* passes]; each expect panics on an error
post_processing(gen, config) == StartRoom(gen, config, fix_edge_bugs(gen.map))

(***************************************************************************)
(* Generator::generate_map (generator.rs 194-211) as a run: `pc` is the    *)
(* position in the function ("loop" before an iteration of the loop,       *)
(* "done" after Ok(map) is returned, "err" after an Err is returned,       *)
(* "panic" after a panic), `iter` the number of calls of step made,        *)
(* `passes` the post-processing passes completed.                          *)
(***************************************************************************)
\* generator.rs 199
RunNew(max_steps, seed, config, env) ==
    [pc |-> "loop", iter |-> 0, max_steps |-> max_steps, seed |-> seed,
     config |-> config, env |-> env, err |-> "", passes |-> << >>,
     gen |-> GeneratorNew(config, seed, env)]

\* generator.rs 201-204: the loop goes on
LoopGoesOn(r) ==
    /\ r.pc = "loop"
    /\ r.iter < r.max_steps
    /\ ~r.gen.walker.finished

\* the loop going on after a failed step, the error kept aside
AfterGeneratorStepBuggy(r, s) ==
    [r EXCEPT !.gen = s.gen, !.iter = @ + 1, !.err = s.err]

\* generator.rs 205: one iteration of the loop, s being the result of step
AfterGeneratorStep(r, s) ==
    [r EXCEPT !.gen = s.gen, !.iter = @ + 1, !.err = s.err,
              !.pc = IF s.status = "ok" THEN "loop" ELSE s.status]

RunStep(r) == AfterGeneratorStep(r, GeneratorStep(r.gen, r.config))

\* generator.rs 208-210: after the loop, p being the result of post_processing
AfterPostProcessing(r, p) ==
    [r EXCEPT !.gen = p.gen, !.err = p.err, !.passes = p.passes,
              !.pc = IF p.status = "ok" THEN "done" ELSE p.status]

RunPostProcessing(r) == AfterPostProcessing(r, post_processing(r.gen, r.config))

\* the four mutation probabilities of the configurations explored
MutationProbs == {0, 50, 100}

Configs(probs) ==
    {GenerationConfig(MainWaypoints, a, b, c, d) :
        a \in probs, b \in probs, c \in probs, d \in probs}

Seeds == 0 .. (NumSeeds - 1)

\* the entropy of a process
Entropy == {11, 42}

\* the step budgets given to generate_map: one that runs out before the
\* walker can finish, one that lets it finish
StepBudgets == {MaxSteps \div 3, MaxSteps}

Init ==
    /\ fpc = "none"
    /\ fin = NoOut
    /\ fout = NoOut
    /\ run \in {RunNew(max_steps, seed, config, 11) :
                   max_steps \in StepBudgets, seed \in Seeds,
                   config \in Configs(MutationProbs)}
    /\ run2 = NoRun

Step ==
    /\ LoopGoesOn(run)
    /\ run' = RunStep(run)
    /\ UNCHANGED <<fpc, fin, fout, run2>>

PostProcessing ==
    /\ run.pc = "loop"
    /\ ~LoopGoesOn(run)
    /\ run' = RunPostProcessing(run)
    /\ UNCHANGED <<fpc, fin, fout, run2>>

Next == Step \/ PostProcessing

Spec == Init /\ [][Next]_vars

(***************************************************************************)
(* SpecRuns: two independent runs of generate_map with the same seed and   *)
(* the same configuration, each in its own process                         *)
(***************************************************************************)
RunsInit ==
    /\ fpc = "none"
    /\ fin = NoOut
    /\ fout = NoOut
    /\ \E seed \in Seeds : \E config \in Configs({50}) :
          /\ run \in {RunNew(MaxSteps, seed, config, env) : env \in Entropy}
          /\ run2 \in {RunNew(MaxSteps, seed, config, env) : env \in Entropy}

Step2 ==
    /\ LoopGoesOn(run2)
    /\ run2' = RunStep(run2)
    /\ UNCHANGED <<fpc, fin, fout, run>>

PostProcessing2 ==
    /\ run2.pc = "loop"
    /\ ~LoopGoesOn(run2)
    /\ run2' = RunPostProcessing(run2)
    /\ UNCHANGED <<fpc, fin, fout, run>>

RunsNext == Step \/ PostProcessing \/ Step2 \/ PostProcessing2

SpecRuns == RunsInit /\ [][RunsNext]_vars

(***************************************************************************)
(* Claims about the generator (Spec, SpecRuns)                             *)
(***************************************************************************)
\* the walkers of a run
Walkers(r) ==
    IF r.pc = "none" THEN {}
    ELSE {r.gen.walker} \cup {r.gen.walker2[i] : i \in 1 .. Len(r.gen.walker2)}

Ended(r) == r.pc \in {"done", "err", "panic"}

C4_OuterNotSmaller ==
    /\ \A w \in Walkers(run) : w.outer_kernel.size >= w.inner_kernel.size
    /\ run.pc # "none" =>
          /\ run.err # "assertion failed: outer_size >= inner_size"
          /\ run.err # "attempt to subtract with overflow"

\* mutate_kernel has resampled the inner size and a margin of zero: the
\* kernels of the primary walker have the same size, not the initial one
C4_Witness ==
    /\ run.pc = "loop"
    /\ run.iter > 0
    /\ run.gen.walker.inner_kernel.size # InitInnerSize
    /\ run.gen.walker.outer_kernel.size = run.gen.walker.inner_kernel.size

\* C5: for every walker in every state of a run, goal is None exactly when
\* finished is true, and while the walker is not finished goal_index is an
\* index of waypoints and goal is the waypoint at that index.
C5_GoalNoneIffFinished ==
    \A w \in Walkers(run) :
        /\ (w.goal = None) <=> w.finished
        /\ ~w.finished =>
              /\ w.goal_index < Len(w.waypoints)
              /\ w.goal = Some(w.waypoints[w.goal_index + 1])

\* the primary walker went through all its waypoints and is finished, the
\* secondary walker has had a failed step and is on its way to a waypoint
C5_Witness ==
    /\ run.pc # "none"
    /\ run.gen.walker.finished
    /\ run.gen.walker.goal = None
    /\ run.gen.walker.goal_index = Len(run.gen.walker.waypoints) - 1
    /\ ~run.gen.walker2[1].finished
    /\ Len(run.gen.walker2[1].position_history) > run.gen.walker2[1].steps

\* the lock-mask of walker number i of run r (1 primary, 2 secondary)
LockMask(r, i) ==
    IF i = 1 THEN r.gen.walker.locked_positions
    ELSE r.gen.walker2[1].locked_positions

\* C6: a cell of a walker's lock-mask that is true stays true in every later
\* state of the run: no step writes false into the mask.
C6_LockMaskMonotone ==
    [][run.pc # "none" =>
          \A i \in 1 .. 2 : \A c \in Cells(MapWidth, MapHeight) :
              LockMask(run, i)[c] => LockMask(run', i)[c]]_vars

\* the window the primary walker of run locks around a position
LockedWindow(pos) ==
    Area(Position(pos.x - MaxValue(run.config.inner_size_probs),
                  pos.y - MaxValue(run.config.inner_size_probs)),
         Position(pos.x + MaxValue(run.config.inner_size_probs),
                  pos.y + MaxValue(run.config.inner_size_probs)))

\* the primary walker has locked two different windows: a cell locked by an
\* earlier step is still locked after a later step locked another window
C6_Witness ==
    /\ run.pc # "none"
    /\ run.gen.walker.steps > LockDelay + 1
    /\ \E c \in Cells(MapWidth, MapHeight) :
          /\ run.gen.walker.locked_positions[c]
          /\ c \notin LockedWindow(
                 run.gen.walker.position_history[run.gen.walker.steps - LockDelay + 1])
    /\ \E c \in LockedWindow(
                 run.gen.walker.position_history[run.gen.walker.steps - LockDelay + 1]) :
          /\ run.gen.walker.locked_positions[c]
          /\ c \notin LockedWindow(
                 run.gen.walker.position_history[run.gen.walker.steps - LockDelay])

(***************************************************************************)
(* Frame of freeze-blob removal (SpecBlobs)                                *)
(***************************************************************************)
\* The component is kept: it has a member next to a Hookable cell, or it has
\* at least min_freeze_size cells
KeptComponent(m, comp, min_freeze_size) ==
    TouchesHookable(m, comp) \/ Cardinality(comp) >= min_freeze_size

\* C11: remove_freeze_blobs only ever changes Freeze cells to Empty (no
\* Empty or Hookable cell is changed), and it changes no cell of a Freeze
\* component that has a member adjacent to a Hookable cell or that has at
\* least min_freeze_size cells, in however many partial flood fills the
\* component is discovered.
C11_BlobRemovalFrame ==
    BlobDone =>
        \A c \in Cells(fin.map.width, fin.map.height) :
            /\ fout.map.grid[c] # fin.map.grid[c]
                  => (fin.map.grid[c] = "Freeze" /\ fout.map.grid[c] = "Empty")
            /\ (/\ fin.map.grid[c] = "Freeze"
                /\ KeptComponent(fin.map, Component(fin.map, c), fin.min_freeze_size))
                  => fout.map.grid[c] = "Freeze"

\* a small component is kept through a member that has no Hookable cell in
\* its own window, while another blob of the same grid is removed
C11_Witness ==
    /\ BlobDone
    /\ fout.status = "ok"
    /\ \E c \in FreezeCells(fin.map) :
          /\ TouchesHookable(fin.map, Component(fin.map, c))
          /\ Cardinality(Component(fin.map, c)) < fin.min_freeze_size
          /\ ~TouchesHookable(fin.map, {c})
          /\ fout.map.grid[c] = "Freeze"
    /\ \E c \in FreezeCells(fin.map) : fout.map.grid[c] = "Empty"

(***************************************************************************)
(* Claims about generate_map and Generator::step (Spec)                    *)
(***************************************************************************)
\* C12: generate_map calls step until the primary walker is finished or
\* max_steps calls have been made, never more, and only then runs the
\* post-processing passes, each once and in this order: edge-bug repair,
\* start room, finish room, distance-based fill, skip generation,
\* freeze-blob removal.
C12_PassesInOrder ==
    run.pc # "none" =>
        /\ run.iter <= run.max_steps
        /\ run.pc = "loop" => run.passes = << >>
        /\ run.pc = "done" =>
              /\ run.gen.walker.finished \/ run.iter = run.max_steps
              /\ run.passes = <<"fix_edge_bugs", "generate_room Start",
                                "generate_room Finish", "fill_area",
                                "generate_all_skips", "remove_freeze_blobs">>

\* the passes Generator::post_processing makes (generator.rs 177-185)
PostProcessingPasses ==
    <<"fix_edge_bugs", "generate_room Start", "generate_room Finish", "fill_area">>

HasTile(m, tile) == \E c \in Cells(m.width, m.height) : m.grid[c] = tile

\* C13: generate_map returns Ok(map) only after every pass of
\* post_processing has completed on that map, and a failed call of step
\* ends the run at once with its error: the loop never goes on after a
\* failure, no pass is made and no grid is returned.
C13_NoPartialGrid ==
    run.pc # "none" =>
        /\ run.pc = "loop" => (run.err = "" /\ run.passes = << >>)
        /\ run.pc = "done" =>
              /\ run.err = ""
              /\ run.passes = PostProcessingPasses
              /\ HasTile(run.gen.map, "Start")
              /\ HasTile(run.gen.map, "Finish")
        /\ run.pc = "err" =>
              /\ run.err # ""
              /\ run.passes = << >>
              /\ ~HasTile(run.gen.map, "Start")
              /\ ~HasTile(run.gen.map, "Finish")
        /\ run.pc = "panic" => run.passes # PostProcessingPasses

\* a run has returned Ok after several calls of step, its map holding both
\* rooms
C13_Witness ==
    /\ run.pc = "done"
    /\ run.passes = PostProcessingPasses
    /\ run.iter > 1
    /\ HasTile(run.gen.map, "Finish")

\* walker number i of run r (1 primary, 2 secondary)
WalkerAt(r, i) == IF i = 1 THEN r.gen.walker ELSE r.gen.walker2[1]

\* C14: a call of Generator::step that returns Ok has advanced every walker
\* that is not finished, primary and secondary, by exactly one step and has
\* advanced no finished walker; a walker's failed step makes step return
\* that failure, so no walker is left behind by a step that returned Ok.
C14_StepAdvancesAll ==
    [][(LoopGoesOn(run) /\ run'.iter = run.iter + 1 /\ run'.pc = "loop") =>
          \A i \in 1 .. 2 :
              /\ ~WalkerAt(run', i).finished =>
                    WalkerAt(run', i).steps = WalkerAt(run, i).steps + 1
              /\ WalkerAt(run', i).finished =>
                    /\ WalkerAt(run', i).steps = WalkerAt(run, i).steps
                    /\ WalkerAt(run', i).pos = WalkerAt(run, i).pos]_vars

(***************************************************************************)
(* SpecWalker: the calls Generator::step makes on the primary walker, one  *)
(* method call per action and in the order of generator.rs 65-99, the      *)
(* walker alone on the map.  fout is the walker, map and random stream     *)
(* after the last call with the call's status, fin what they were before   *)
(* it, fpc the method called last.                                         *)
(***************************************************************************)
WalkerState(status, err, walker, m, rnd, config) ==
    [status |-> status, err |-> err, walker |-> walker, map |-> m, rnd |-> rnd,
     config |-> config]

\* generator.rs 32-43 for the primary walker
WalkerNew(seed, config) ==
    WalkerState("ok", "",
                CuteWalkerNew(Spawn, KernelNew(InitInnerSize, 0),
                              KernelNew(InitOuterSize, 0), config.waypoints,
                              MapNew(MapWidth, MapHeight, "Hookable", Spawn)),
                MapNew(MapWidth, MapHeight, "Hookable", Spawn),
                RandomNew(seed, config), config)

\* the result r of a walker method put into the state s it was called in
AfterCall(s, r) ==
    WalkerState(r.status, r.err, r.walker, r.map, r.rnd, s.config)

\* configurations that lead the walker along the right border of the map,
\* with platform distances no run gets to, so that check_platform leaves the
\* walker alone there
BorderConfigs(probs) ==
    {[config EXCEPT !.waypoints = <<Position(MapWidth - 2, MapHeight - RoomSize - 3),
                                    Position(MapWidth - 2, 4)>>,
                    !.platform_distance_bounds = <<MaxSteps + 1, 2 * MaxSteps>>] :
        config \in Configs(probs)}

WalkerInit ==
    /\ fpc = "new"
    /\ fin = NoOut
    /\ fout \in {WalkerNew(seed, config) :
                    seed \in Seeds,
                    config \in Configs(MutationProbs) \cup BorderConfigs({0, 100})}
    /\ run = NoRun
    /\ run2 = NoRun

\* generator.rs 65-67
CallNextWaypoint ==
    /\ fpc \in {"new", "check_platform"}
    /\ fout.status = "ok"
    /\ ~fout.walker.finished
    /\ fout.walker.steps < MaxSteps
    /\ fin' = fout
    /\ fout' = [fout EXCEPT !.walker = AdvanceGoal(@, fout.config)]
    /\ fpc' = "next_waypoint"
    /\ UNCHANGED <<run, run2>>

\* generator.rs 82
CallMutateKernel ==
    /\ fpc = "next_waypoint"
    /\ ~fout.walker.finished
    /\ fin' = fout
    /\ fout' = AfterCall(fout, [map |-> fout.map] @@
                               mutate_kernel(fout.walker, fout.config, fout.rnd))
    /\ fpc' = "mutate_kernel"
    /\ UNCHANGED <<run, run2>>

\* generator.rs 88-89
CallProbabilisticStep ==
    /\ fpc = "mutate_kernel"
    /\ fout.status = "ok"
    /\ fin' = fout
    /\ fout' = AfterCall(fout, probabilistic_step(fout.walker, fout.map, fout.config,
                                                  fout.rnd))
    /\ fpc' = "probabilistic_step"
    /\ UNCHANGED <<run, run2>>

\* generator.rs 95-99
CallCheckPlatform ==
    /\ fpc = "probabilistic_step"
    /\ fout.status = "ok"
    /\ fin' = fout
    /\ fout' = AfterCall(fout, [rnd |-> fout.rnd] @@
                               check_platform(fout.walker, fout.map,
                                              fout.config.platform_distance_bounds[1],
                                              fout.config.platform_distance_bounds[2]))
    /\ fpc' = "check_platform"
    /\ UNCHANGED <<run, run2>>

WalkerNext ==
    CallNextWaypoint \/ CallMutateKernel \/ CallProbabilisticStep \/ CallCheckPlatform

SpecWalker == WalkerInit /\ [][WalkerNext]_vars

(***************************************************************************)
(* Claims about the walker's step (SpecWalker)                             *)
(***************************************************************************)
\* the last call was probabilistic_step
Stepped == fpc = "probabilistic_step"

\* the values the last probabilistic_step drew from the stream
StepDraws == fout.rnd.draws - fin.rnd.draws

\* the draws of a step before any resample: the sampled shift (two values)
\* and the momentum decision (one value, made when there is a last shift)
FirstDraws == 2 + (IF fin.walker.last_shift # None THEN 1 ELSE 0)

\* the resamples of the last probabilistic_step, two values each
Resamples == (StepDraws - FirstDraws) \div 2

Moved == fout.walker.pos # fin.walker.pos

\* C15: a probabilistic_step that moves the walker moves it to a cell that
\* was not in the lock-mask; the step draws at most Retries (in the code,
\* 100) resamples and nothing but resamples after the first target (no
\* further momentum decision); it returns the stuck error only when every
\* iteration found its target locked, and then the walker has not moved.
C15_NoMoveOntoLocked ==
    (Stepped /\ StepDraws > 0) =>
        /\ Moved => ~fin.walker.locked_positions[as_index(fout.walker.pos)]
        /\ StepDraws = FirstDraws + 2 * Resamples
        /\ Resamples \in 0 .. Retries
        /\ fout.err = "Walker got stuck :(" =>
              /\ ~Moved
              /\ fout.walker.steps = fin.walker.steps
              /\ Resamples = Retries
        /\ (fout.status = "ok" /\ Resamples > 0) =>
              \E n \in Cells(MapWidth, MapHeight) :
                  /\ pos_distance_squared(Position(n[1], n[2]), fin.walker.pos) = 1
                  /\ fin.walker.locked_positions[n]

\* a step has moved the walker after resampling away from a locked target
C15_Witness ==
    /\ Stepped
    /\ fout.status = "ok"
    /\ Moved
    /\ Resamples > 0
    /\ Resamples < Retries

\* C16: every successful probabilistic_step moves the walker by exactly one
\* cell along one axis to a cell of the map, increases steps by exactly 1
\* and appends exactly one entry, the position before the move, to
\* position_history; so while all steps succeeded the history is as long as
\* steps, starts at the spawn, and each entry is one cell away from the
\* next, the last one cell away from the walker.
C16_StepMovesOneCell ==
    /\ (Stepped /\ fout.status = "ok") =>
          /\ pos_distance_squared(fout.walker.pos, fin.walker.pos) = 1
          /\ pos_in_bounds(fout.map, fout.walker.pos)
          /\ fout.walker.steps = fin.walker.steps + 1
          /\ fout.walker.position_history =
                Append(fin.walker.position_history, fin.walker.pos)
    /\ (fpc \in {"new", "next_waypoint", "mutate_kernel", "probabilistic_step",
                 "check_platform"} /\ fout.status = "ok") =>
          /\ Len(fout.walker.position_history) = fout.walker.steps
          /\ \A i \in 1 .. fout.walker.steps :
                pos_distance_squared(
                    fout.walker.position_history[i],
                    IF i = fout.walker.steps THEN fout.walker.pos
                    ELSE fout.walker.position_history[i + 1]) = 1
          /\ fout.walker.steps > 0 => fout.walker.position_history[1] = Spawn

\* the walker has made several successful steps, along both axes
C16_Witness ==
    /\ Stepped
    /\ fout.status = "ok"
    /\ fout.walker.steps > 3
    /\ fout.walker.pos.x # Spawn.x
    /\ fout.walker.pos.y # Spawn.y

\* the cells of the map in the square window around pos that extends the
\* largest configured inner kernel size in each direction
WindowAround(pos, config) ==
    {c \in Cells(MapWidth, MapHeight) :
        /\ c[1] - pos.x \in -MaxValue(config.inner_size_probs) ..
                             MaxValue(config.inner_size_probs)
        /\ c[2] - pos.y \in -MaxValue(config.inner_size_probs) ..
                             MaxValue(config.inner_size_probs)}

\* C17: after every successful step taken with more than LockDelay (in the
\* code, 100) positions in the history, every cell of the window around the
\* position the walker had LockDelay steps earlier is in the lock-mask,
\* wherever in the map that position lies.
C17_WindowLocked ==
    (/\ Stepped
     /\ fout.status = "ok"
     /\ Len(fout.walker.position_history) > LockDelay) =>
        \A c \in WindowAround(
                     fout.walker.position_history[fout.walker.steps - LockDelay + 1],
                     fout.config) :
            fout.walker.locked_positions[c]

(***************************************************************************)
(* Waypoints (Spec)                                                        *)
(***************************************************************************)
\* walker w is within the reach radius of the waypoint that is its goal
GoalInReach(w, config) ==
    pos_distance_squared(w.waypoints[w.goal_index + 1], w.pos)
        <= config.waypoint_reached_dist

\* C18: in every step of a run and for both walkers, goal_index stays or
\* grows by exactly 1, and it grows only from a state in which the walker is
\* within waypoint_reached_dist (squared distance) of waypoints[goal_index];
\* finished becomes true only from a state in which the last waypoint is the
\* goal and is within that distance; a finished walker stays finished and
\* keeps its position.
C18_WaypointsInOrder ==
    [][(run.pc # "none" /\ run'.pc # "none") =>
          \A i \in 1 .. 2 :
              /\ WalkerAt(run', i).waypoints = WalkerAt(run, i).waypoints
              /\ WalkerAt(run', i).goal_index \in
                    {WalkerAt(run, i).goal_index, WalkerAt(run, i).goal_index + 1}
              /\ WalkerAt(run', i).goal_index = WalkerAt(run, i).goal_index + 1 =>
                    /\ ~WalkerAt(run, i).finished
                    /\ GoalInReach(WalkerAt(run, i), run.config)
              /\ (~WalkerAt(run, i).finished /\ WalkerAt(run', i).finished) =>
                    /\ WalkerAt(run, i).goal_index =
                          Len(WalkerAt(run, i).waypoints) - 1
                    /\ WalkerAt(run', i).goal_index = WalkerAt(run, i).goal_index
                    /\ GoalInReach(WalkerAt(run, i), run.config)
              /\ WalkerAt(run, i).finished =>
                    /\ WalkerAt(run', i).finished
                    /\ WalkerAt(run', i).pos = WalkerAt(run, i).pos]_vars

\* the primary walker has gone through both its waypoints and is finished,
\* away from where it started
C18_Witness ==
    /\ run.pc = "done"
    /\ run.gen.walker.finished
    /\ run.gen.walker.goal_index = 1
    /\ Len(run.gen.walker.waypoints) = 2
    /\ pos_distance_squared(run.gen.walker.pos, run.gen.walker.waypoints[2]) <= 2
    /\ run.gen.walker.steps > 5

(***************************************************************************)
(* Pulses (SpecWalker)                                                     *)
(***************************************************************************)
\* the last step went in the direction of the step before it
SameDir ==
    /\ fin.walker.last_shift # None
    /\ fout.walker.last_shift = fin.walker.last_shift

\* the condition under which the claim has a pulse performed, the counter
\* being the one before the step
PulseDue ==
    /\ fout.config.enable_pulse
    /\ \/ SameDir /\ fin.walker.pulse_counter > fout.config.pulse_straight_delay
       \/ ~SameDir /\ fin.walker.pulse_counter > fout.config.pulse_corner_delay

\* the map after a pulse at the walker's new position, and after the usual
\* carving with the walker's kernels
PulseMap ==
    apply_kernel(apply_kernel(fin.map, fout.walker.pos,
                              KernelNew(fout.walker.inner_kernel.size + 4, 0),
                              "Freeze").map,
                 fout.walker.pos,
                 KernelNew(fout.walker.inner_kernel.size + 2, 0), "Empty").map

CarveMap ==
    Carve(fin.map, fout.walker.pos, fout.walker.inner_kernel,
          fout.walker.outer_kernel,
          IF fout.walker.steps < fout.config.fade_steps
          THEN "EmptyReserved" ELSE "Empty").map

\* C19: after a successful step the pulse counter is one more than its value
\* after the carve decision (0 if a pulse was performed, the old counter
\* otherwise) if the step kept the direction of the previous one and the
\* inner kernel size is at most pulse_max_kernel_size, and 0 otherwise; the
\* map is the pulse's if pulses are enabled and the counter before the step
\* exceeded pulse_straight_delay (same direction) or pulse_corner_delay
\* (direction change), and the usual carving's otherwise.
C19_PulseCounter ==
    (Stepped /\ fout.status = "ok") =>
        /\ fout.walker.pulse_counter =
              IF SameDir /\ fout.walker.inner_kernel.size
                               <= fout.config.pulse_max_kernel_size
              THEN (IF PulseDue THEN 0 ELSE fin.walker.pulse_counter) + 1
              ELSE 0
        /\ fout.map = IF PulseDue THEN PulseMap ELSE CarveMap

\* a pulse was performed on a straight stretch, seen in the map, and the
\* counter restarted from it
C19_Witness ==
    /\ Stepped
    /\ fout.status = "ok"
    /\ PulseDue
    /\ SameDir
    /\ fout.map = PulseMap
    /\ PulseMap # CarveMap
    /\ fin.walker.pulse_counter > 1
    /\ fout.walker.pulse_counter = 1

(***************************************************************************)
(* SpecPlatform: one check_platform call.  The map is Empty or Hookable    *)
(* throughout, or Empty but for one Hookable cell; the walker stands on    *)
(* any cell with any count of steps since the last platform that the       *)
(* bounds allow.                                                           *)
(***************************************************************************)
PlatformMaps(width, height) ==
    {MapOf(width, height, [c \in Cells(width, height) |-> tile]) :
        tile \in {"Empty", "Hookable"}}
    \cup {MapOf(width, height,
                [c \in Cells(width, height) |-> IF c = h THEN "Hookable" ELSE "Empty"]) :
            h \in Cells(width, height)}

\* a walker at pos that has made `since` steps since the last platform
WalkerAtPlatform(m, pos, since) ==
    [CuteWalkerNew(pos, KernelNew(InitInnerSize, 0), KernelNew(InitOuterSize, 0),
                   MainWaypoints, m)
        EXCEPT !.steps_since_platform = since]

PlatformInputs(width, height) ==
    {[op |-> "check_platform",
      map |-> m,
      walker |-> WalkerAtPlatform(m, Position(p[1], p[2]), since),
      min_distance |-> min_distance,
      max_distance |-> max_distance] :
        m \in PlatformMaps(width, height),
        p \in Cells(width, height),
        min_distance \in 1 .. MaxPlatformDistance,
        max_distance \in 1 .. MaxPlatformDistance,
        since \in 0 .. MaxPlatformDistance}

PlatformInit ==
    /\ fpc = "ready"
    /\ fin \in {i \in PlatformInputs(PlatWidth, PlatHeight) :
                   i.min_distance <= i.max_distance}
    /\ fout = NoOut
    /\ run = NoRun
    /\ run2 = NoRun

CallCheckPlatformOnce ==
    /\ fpc = "ready"
    /\ fin.op = "check_platform"
    /\ fout' = check_platform(fin.walker, fin.map, fin.min_distance, fin.max_distance)
    /\ fpc' = "done"
    /\ UNCHANGED <<fin, run, run2>>

PlatformNext == CallCheckPlatformOnce

SpecPlatform == PlatformInit /\ [][PlatformNext]_vars

(***************************************************************************)
(* Claims about check_platform (SpecPlatform)                              *)
(***************************************************************************)
PlatformDone == fpc = "done" /\ fin.op = "check_platform"

\* the steps since the last platform, this step counted
SincePlatform == fin.walker.steps_since_platform + 1

\* the clearance rectangle from (x-3, y-3) to (x+3, y+2) around the walker
Clearance ==
    {c \in Cells(fin.map.width, fin.map.height) :
        /\ c[1] - fin.walker.pos.x \in -3 .. 3
        /\ c[2] - fin.walker.pos.y \in -3 .. 2}

\* the platform strip: the walker's cell and its left and right neighbours
Strip ==
    {c \in Cells(fin.map.width, fin.map.height) :
        /\ c[1] - fin.walker.pos.x \in -1 .. 1
        /\ c[2] = fin.walker.pos.y}

\* the cells the call has changed
Changed == {c \in Cells(fin.map.width, fin.map.height) :
               fout.map.grid[c] # fin.map.grid[c]}

\* C20: with min_distance <= max_distance, after a successful check_platform
\* call steps_since_platform is at most max_distance; when the count exceeds
\* max_distance a room is forced below the walker and the count is reset to
\* 0; when fewer than min_distance steps have passed the map is unchanged;
\* in between, the platform strip is written and the count reset only if
\* the clearance rectangle around the walker is entirely Empty, and the map
\* is unchanged otherwise.
C20_PlatformDistance ==
    (PlatformDone /\ fout.status = "ok") =>
        /\ fout.walker.steps_since_platform <= fin.max_distance
        /\ fout.walker.pos = fin.walker.pos
        /\ SincePlatform > fin.max_distance =>
              /\ fout.walker.steps_since_platform = 0
              /\ Changed # {}
              /\ \A c \in Changed :
                    /\ c[2] > fin.walker.pos.y
                    /\ fout.map.grid[c] \in {"EmptyReserved", "Platform"}
        /\ SincePlatform < fin.min_distance =>
              /\ Changed = {}
              /\ fout.walker.steps_since_platform = SincePlatform
        /\ SincePlatform \in fin.min_distance .. fin.max_distance =>
              IF \A c \in Clearance : fin.map.grid[c] = "Empty"
              THEN /\ Changed = Strip
                   /\ \A c \in Strip : fout.map.grid[c] = "Platform"
                   /\ fout.walker.steps_since_platform = 0
              ELSE /\ Changed = {}
                   /\ fout.walker.steps_since_platform = SincePlatform

\* a strip was written in the clear, between the bounds
C20_Witness ==
    /\ PlatformDone
    /\ fout.status = "ok"
    /\ SincePlatform \in fin.min_distance .. fin.max_distance
    /\ fin.min_distance < fin.max_distance
    /\ fout.walker.steps_since_platform = 0
    /\ Changed = Strip
    /\ Cardinality(Strip) = 3

(***************************************************************************)
(* Claims about the draws of mutate_kernel (SpecWalker)                    *)
(***************************************************************************)
\* the call just made is the walker's mutate_kernel
Mutated == fpc = "mutate_kernel" /\ fin # NoOut

\* one with_probability draw and two sample or skip draws for each of the
\* four mutations
MutateDraws == 4 * (1 + 2)

\* C21: every call of mutate_kernel advances the random stream by the same
\* number of draws, whichever of the four mutations occur: the stream after
\* the call is the stream before it advanced by twelve draws, so the draws
\* that follow are read at the same offsets.
C21_MutateDrawsAligned ==
    Mutated =>
        /\ fout.rnd.draws = fin.rnd.draws + MutateDraws
        /\ fout.rnd = skip_n(fin.rnd, MutateDraws)

\* a call in which the inner size was mutated and the outer circularity
\* was not
C21_Witness ==
    /\ Mutated
    /\ fout.status = "ok"
    /\ fout.walker.inner_kernel.size # fin.walker.inner_kernel.size
    /\ fout.config.outer_rad_mut_prob = 0
    /\ fout.config.inner_size_mut_prob = 50

(***************************************************************************)
(* SpecCorner: one check_corner_skip call on a one-row map, from any cell  *)
(* in any direction                                                        *)
(***************************************************************************)
CornerInputs(len) ==
    [op : {"check_corner_skip"},
     map : {MapOf(len, 1, g) : g \in GridsOf(len, 1)},
     init_pos : {Position(x, 0) : x \in 0 .. (len - 1)},
     shift : ShiftDirection,
     tunnel_bounds : (MinTunnelLo .. (MinTunnelLo + 1)) \X (MinTunnelHi .. (MinTunnelHi + 1))]

CornerInit ==
    /\ fpc = "ready"
    /\ fin \in CornerInputs(TunnelLen)
    /\ fout = NoOut
    /\ run = NoRun
    /\ run2 = NoRun

\* `walk` is where the loop of lines 228-253 stopped
CallCheckCornerSkip ==
    /\ fpc = "ready"
    /\ fin.op = "check_corner_skip"
    /\ fout' = [skip |-> check_corner_skip(fin.map, fin.init_pos, fin.shift,
                                           fin.tunnel_bounds),
                walk |-> SkipWalk(fin.map, fin.init_pos, fin.shift,
                                  fin.tunnel_bounds[2], 0, 0)]
    /\ fpc' = "done"
    /\ UNCHANGED <<fin, run, run2>>

CornerNext == CallCheckCornerSkip

SpecCorner == CornerInit /\ [][CornerNext]_vars

(***************************************************************************)
(* Claims about check_corner_skip (SpecCorner)                             *)
(***************************************************************************)
CornerDone == fpc = "done" /\ fin.op = "check_corner_skip"

\* the cell i steps from the start in the direction of the call
Ahead(i) ==
    CASE fin.shift = "Up" -> <<fin.init_pos.x, fin.init_pos.y - i>>
      [] fin.shift = "Right" -> <<fin.init_pos.x + i, fin.init_pos.y>>
      [] fin.shift = "Down" -> <<fin.init_pos.x, fin.init_pos.y + i>>
      [] fin.shift = "Left" -> <<fin.init_pos.x - i, fin.init_pos.y>>

\* cells 1 .. n - 1 ahead read as Freeze (1 .. a), Hookable (a + 1 .. b),
\* Freeze (b + 1 .. n - 1), each run non-empty
WellFormedTunnel(n) ==
    \E a \in 1 .. (n - 1), b \in 1 .. (n - 1) :
        /\ a < b
        /\ b < n - 1
        /\ \A i \in 1 .. (n - 1) :
              fin.map.grid[Ahead(i)] =
                  IF i \in (a + 1) .. b THEN "Hookable" ELSE "Freeze"

\* C22: check_corner_skip returns a Skip only for a well-formed tunnel: the
\* end position lies exactly `length` cells from the start in the given
\* direction and in the grid, lo < length <= hi, the end cell is Empty and
\* the cells strictly between read as one or more Freeze, one or more
\* Hookable, one or more Freeze; and the call inspects at most hi cells.
C22_SkipIsTunnel ==
    CornerDone =>
        /\ fout.skip # NoSkip =>
              LET skip == fout.skip[1]
              IN  /\ skip.start_pos = fin.init_pos
                  /\ skip.direction = fin.shift
                  /\ as_index(skip.end_pos) = Ahead(skip.length)
                  /\ \A i \in 1 .. skip.length :
                        Ahead(i) \in Cells(fin.map.width, fin.map.height)
                  /\ fin.tunnel_bounds[1] < skip.length
                  /\ skip.length <= fin.tunnel_bounds[2]
                  /\ fin.map.grid[as_index(skip.end_pos)] = "Empty"
                  /\ WellFormedTunnel(skip.length)
        /\ \E n \in 0 .. fin.tunnel_bounds[2] : as_index(fout.walk.pos) = Ahead(n)

\* a Skip was returned for a tunnel with two Freeze cells in a row
C22_Witness ==
    /\ CornerDone
    /\ fout.skip # NoSkip
    /\ fout.skip[1].length = 5
    /\ fin.shift = "Left"

(***************************************************************************)
(* Connectivity of freeze-blob removal (SpecBlobs)                         *)
(***************************************************************************)
\* the component of a Freeze cell by 4-neighbourhood reachability
Component4(m, c) == Reach(m, {c}, FALSE)

\* c and d touch only diagonally
TouchDiagonally(c, d) ==
    /\ c[1] - d[1] \in {0 - 1, 1}
    /\ c[2] - d[2] \in {0 - 1, 1}

\* the map with the cells of comp set to Empty
WithoutComponent(m, comp) ==
    [m EXCEPT !.grid = [x \in DOMAIN m.grid |-> IF x \in comp THEN "Empty" ELSE m.grid[x]]]

\* C23: freeze-blob removal takes components by 4-neighbourhood
\* reachability: a Freeze cell that touches another Freeze cell only
\* diagonally, the two being in different 4-components, is removed or kept
\* independently of it, i.e. exactly as it is on the map without the other
\* cell's component.
C23_DiagonalIndependent ==
    (BlobDone /\ fout.status = "ok") =>
        \A c \in FreezeCells(fin.map), d \in FreezeCells(fin.map) :
            (TouchDiagonally(c, d) /\ d \notin Component4(fin.map, c)) =>
                remove_freeze_blobs(
                    WithoutComponent(fin.map, Component4(fin.map, d)),
                    fin.min_freeze_size).map.grid[c] = fout.map.grid[c]

(***************************************************************************)
(* The order of the two walkers' map edits inside Generator::step (Spec)   *)
(***************************************************************************)
\* the walker whose call changed the map, or nothing when it did not
EditLog(before, after, who) == IF before = after THEN << >> ELSE << who >>

\* generator.rs 87-99: the walkers whose calls changed the map, in the order
\* of the calls; s1 and s2 are the results of the two probabilistic_step calls
PlatformEdits(gen, config, s1, s2) ==
    EditLog(gen.map, s1.map, "walker")
    \o EditLog(s1.map, s2.map, "walker2")
    \o EditLog(s2.map,
               check_platform(s1.walker, s2.map,
                              config.platform_distance_bounds[1],
                              config.platform_distance_bounds[2]).map,
               "walker")

\* generator.rs 87-93, m2 being the result of the secondary mutate_kernel
SecondaryEdits(gen, config, m2, s1) ==
    IF s1.status # "ok" THEN EditLog(gen.map, s1.map, "walker")
    ELSE PlatformEdits(gen, config, s1,
                       probabilistic_step(m2.walker, s1.map, get_configs.skips, m2.rnd))

\* generator.rs 82-93, the goals having been advanced
PrimaryEdits(gen, config, m1, m2) ==
    SecondaryEdits(gen, config, m2,
                   probabilistic_step(m1.walker, gen.map, config, m1.rnd))

WalkerEdits(gen, config) ==
    IF gen.walker.finished THEN << >>
    ELSE PrimaryEdits(gen, config,
                      mutate_kernel(gen.walker, config, gen.rnd),
                      mutate_kernel(gen.walker2[1], get_configs.skips, gen.rnd2))

\* the edits of one Generator::step call on gen
StepEdits(gen, config) ==
    WalkerEdits([gen EXCEPT !.walker = AdvanceGoal(@, config),
                            !.walker2 = Some(AdvanceGoal(@[1], config))],
                config)

\* C24: inside each Generator::step the two walkers' map edits are strictly
\* sequenced: all the edits one walker makes for the step (kernel stamps and
\* platform or room placement) are made before the other walker makes any,
\* so the primary walker's edits are never split around the secondary
\* walker's.
C24_EditsNotSplit ==
    [][(LoopGoesOn(run) /\ run'.iter = run.iter + 1 /\ run'.pc = "loop") =>
          StepEdits(run.gen, run.config) # <<"walker", "walker2", "walker">>]_vars

(***************************************************************************)
(* Failed steps (SpecWalker)                                               *)
(***************************************************************************)
\* the call just made is a probabilistic_step that returned an error
StepFailed == fpc = "probabilistic_step" /\ fin # NoOut /\ fout.status = "err"

\* C25: a failed walker step is free of side effects: whenever
\* probabilistic_step returns an error, the walker's position, steps
\* counter, position_history, pulse counter, last_shift and lock-mask, and
\* the map, are the same as before the call.
C25_FailedStepChangesNothing ==
    StepFailed =>
        /\ fout.walker.pos = fin.walker.pos
        /\ fout.walker.steps = fin.walker.steps
        /\ fout.walker.position_history = fin.walker.position_history
        /\ fout.walker.pulse_counter = fin.walker.pulse_counter
        /\ fout.walker.last_shift = fin.walker.last_shift
        /\ fout.walker.locked_positions = fin.walker.locked_positions
        /\ fout.map = fin.map

(***************************************************************************)
(* SpecSecondary: the calls Generator::step makes on the secondary walker  *)
(* (generator.rs 69-71, 84-86, 91-93), one method call per action.  The    *)
(* walker's moves depend on its own lock-mask and stream and on the size   *)
(* of the map only, so it is taken alone on the map; the result of its     *)
(* step is discarded and it is stepped again whatever that was.  The       *)
(* spawn lies less than the lock delay from the left border, as (50, 250)  *)
(* does with the delay of 100.                                             *)
(***************************************************************************)
SecondarySpawn == Position(LockDelay \div 2, MapHeight - RoomSize - 3)

\* generator.rs 45-48 for the secondary walker
SecondaryNew(seed) ==
    WalkerState("ok", "",
                CuteWalkerNew(SecondarySpawn, KernelNew(InitInnerSize, 0),
                              KernelNew(InitOuterSize, 0),
                              get_configs.skips.waypoints,
                              MapNew(MapWidth, MapHeight, "Hookable", SecondarySpawn)),
                MapNew(MapWidth, MapHeight, "Hookable", SecondarySpawn),
                RandomNew(SecondarySeed(RandomNew(seed, get_configs.default), 11).seed,
                          get_configs.skips),
                get_configs.skips)

SecondaryInit ==
    /\ fpc = "new"
    /\ fin = NoOut
    /\ fout \in {SecondaryNew(seed) : seed \in 0 .. (NumSecondarySeeds - 1)}
    /\ run = NoRun
    /\ run2 = NoRun

\* generator.rs 69-71
CallNextWaypoint2 ==
    /\ fpc \in {"new", "probabilistic_step"}
    /\ fout.status # "panic"
    /\ ~fout.walker.finished
    /\ Len(fout.walker.position_history) < MaxSteps
    /\ fin' = fout
    /\ fout' = [fout EXCEPT !.walker = AdvanceGoal(@, fout.config),
                            !.status = "ok", !.err = ""]
    /\ fpc' = "next_waypoint"
    /\ UNCHANGED <<run, run2>>

\* generator.rs 84-86
CallMutateKernel2 ==
    /\ fpc = "next_waypoint"
    /\ fin' = fout
    /\ fout' = AfterCall(fout, [map |-> fout.map] @@
                               mutate_kernel(fout.walker, fout.config, fout.rnd))
    /\ fpc' = "mutate_kernel"
    /\ UNCHANGED <<run, run2>>

\* generator.rs 91-93
CallProbabilisticStep2 ==
    /\ fpc = "mutate_kernel"
    /\ fout.status = "ok"
    /\ fin' = fout
    /\ fout' = AfterCall(fout, probabilistic_step(fout.walker, fout.map, fout.config,
                                                  fout.rnd))
    /\ fpc' = "probabilistic_step"
    /\ UNCHANGED <<run, run2>>

SecondaryNext == CallNextWaypoint2 \/ CallMutateKernel2 \/ CallProbabilisticStep2

SpecSecondary == SecondaryInit /\ [][SecondaryNext]_vars

(***************************************************************************)
(* The history lookup of lock_previous_location (SpecSecondary)            *)
(***************************************************************************)
\* the last call was a probabilistic_step that got to the lookup of
\* lock_previous_location: it has pushed the position and counted the step
LookupReached ==
    /\ fpc = "probabilistic_step"
    /\ fout.walker.steps = fin.walker.steps + 1

\* C26: the history lookup of lock_previous_location is always in range:
\* whenever position_history holds more than `delay` entries at the time of
\* the lookup, steps >= delay and steps - delay is a valid index of the
\* history, so neither an unsigned underflow nor an out-of-range index
\* occurs, the secondary walker's discarded step errors included.
C26_HistoryLookupInRange ==
    (LookupReached /\ Len(fout.walker.position_history) > LockDelay) =>
        /\ fout.walker.steps >= LockDelay
        /\ fout.walker.steps - LockDelay < Len(fout.walker.position_history)

(***************************************************************************)
(* What generate_map returns Ok for (Spec)                                 *)
(***************************************************************************)
\* C27: a grid is returned only for a completed walk: whenever generate_map
\* returns Ok(map), the primary walker had reached its last waypoint
\* (finished) before post-processing started, so the Finish room is stamped
\* within the reach radius of the last waypoint; exhausting max_steps with
\* the walker unfinished does not yield Ok.
C27_OkOnlyWhenFinished ==
    run.pc = "done" =>
        /\ run.gen.walker.finished
        /\ pos_distance_squared(run.gen.walker.pos, Last(run.config.waypoints))
              <= run.config.waypoint_reached_dist

(***************************************************************************)
(* Edge-bug repair at the border of the grid (SpecEdge)                    *)
(***************************************************************************)
\* C28: edge-bug repair succeeds on every grid: for any grid content, Empty
\* cells in column 0 or row 0 included, fix_edge_bugs returns Ok, and it
\* never returns the 'fix edge bug out of bounds' error with part of the
\* grid already modified.
C28_EdgeRepairSucceeds ==
    EdgeDone =>
        /\ fout.status = "ok"
        /\ fout.err = "fix edge bug out of bounds" => fout.map = fin.map

(***************************************************************************)
(* SpecSteps: Generator::step called by a caller that, unlike generate_map, *)
(* does not look at walker.finished between the calls                      *)
(***************************************************************************)
StepsInit ==
    /\ fpc = "none"
    /\ fin = NoOut
    /\ fout = NoOut
    /\ run \in {RunNew(MaxSteps + IdleSteps, seed, config, 11) :
                   seed \in Seeds, config \in Configs({0, 100})}
    /\ run2 = NoRun

\* one call of step, its result handled as generate_map handles it
CallStep ==
    /\ run.pc = "loop"
    /\ run.iter < run.max_steps
    \* at most IdleSteps calls after the call that found the walker finished
    /\ run.iter < run.gen.walker.steps + 1 + IdleSteps
    /\ run' = RunStep(run)
    /\ UNCHANGED <<fpc, fin, fout, run2>>

StepsNext == CallStep

SpecSteps == StepsInit /\ [][StepsNext]_vars

\* the fields of a walker that a step of it would change
Placement(walker) ==
    <<walker.pos, walker.steps, walker.inner_kernel, walker.outer_kernel>>

\* C29: once the primary walker is finished, Generator::step is a no-op that
\* reports success: it returns Ok, and the map, the primary walker, the
\* secondary walker's position, steps and kernels and both random streams
\* are unchanged by the call, however many times step is called.
C29_StepAfterFinishIsNoOp ==
    [][(run.pc = "loop" /\ run.gen.walker.finished /\ run'.iter = run.iter + 1) =>
          /\ run'.pc = "loop"
          /\ run'.gen.map = run.gen.map
          /\ run'.gen.walker = run.gen.walker
          /\ Placement(run'.gen.walker2[1]) = Placement(run.gen.walker2[1])
          /\ run'.gen.rnd = run.gen.rnd
          /\ run'.gen.rnd2 = run.gen.rnd2]_vars

\* step has been called twice on a generator whose primary walker was
\* finished, the secondary walker not being finished
C29_Witness ==
    /\ run.pc = "loop"
    /\ run.gen.walker.finished
    /\ run.iter >= run.gen.walker.steps + 3
    /\ ~run.gen.walker2[1].finished

(***************************************************************************)
(* The server bridge (bin/ddnet_bridge.rs).  A bridge is                   *)
(* [status, authed, pending_vote, sent, generations, exports, last_result]:*)
(* `sent` the rcon commands sent so far, `generations` the calls of        *)
(* generate_map made, `exports` the maps exported, `last_result` what the  *)
(* last generate_map call returned.  A vote name is the sequence of its    *)
(* whitespace-separated words.  generate_map is the collaborator: its      *)
(* result is any of Ok and Err.                                            *)
(***************************************************************************)
\* ServerBridge::new (lines 63-70) and Econ::new (line 247)
ServerBridgeNew ==
    [status |-> "running", authed |-> FALSE, pending_vote |-> None,
     sent |-> << >>, generations |-> 0, exports |-> 0, last_result |-> "none"]

\* Econ::send_rcon_cmd (lines 257-262)
send_rcon_cmd(bridge, command) == [bridge EXCEPT !.sent = Append(@, command)]

\* lines 199-213: the match on the result of generate_map
AfterGenerateMap(bridge, result) ==
    IF result = "ok"
    THEN send_rcon_cmd(
             send_rcon_cmd(
                 send_rcon_cmd([bridge EXCEPT !.exports = @ + 1, !.last_result = "ok"],
                               "change_map random_map"),
                 "reload"),
             "say [GEN] Done...")
    ELSE send_rcon_cmd(
             send_rcon_cmd([bridge EXCEPT !.last_result = "err"],
                           "say [GEN] Failed due to"),
             "say just try again :)")

\* ServerBridge::generate_and_change_map (lines 184-215), `result` being what
\* generate_map returns
generate_and_change_map(bridge, seed, gen_config, result) ==
    AfterGenerateMap(
        [send_rcon_cmd(bridge, "say [GEN] Generating Map")
            EXCEPT !.generations = @ + 1],
        result)

\* str::starts_with("generate") on the first word of a vote name
StartsWithGenerate(word) == word \in {"generate", "generated"}

\* lines 158-165: the seed derived from the vote reason
SeedOfReason(vote_reason) ==
    IF vote_reason = "No reason given" THEN "random"
    ELSE IF vote_reason \in {"0", "42"} THEN "from_u64"
    ELSE "from_string"

Panicked(bridge) == [bridge EXCEPT !.status = "panic"]

\* ServerBridge::handle_vote without the replace of line 154: the vote
\* stays pending
handle_voteBuggy(bridge, result) ==
    IF bridge.pending_vote = None THEN Panicked(bridge)
    ELSE IF ~StartsWithGenerate(bridge.pending_vote[1].vote_name[1]) THEN bridge
    ELSE IF bridge.pending_vote[1].vote_name[1] # "generate"
            \/ Len(bridge.pending_vote[1].vote_name) # 2
    THEN Panicked(bridge)
    ELSE IF bridge.pending_vote[1].vote_name[2] \notin DOMAIN get_configs
    THEN Panicked(bridge)
    ELSE generate_and_change_map(bridge,
                                 SeedOfReason(bridge.pending_vote[1].vote_reason),
                                 get_configs[bridge.pending_vote[1].vote_name[2]],
                                 result)

\* lines 156-181, the vote taken out of pending_vote
HandleTaken(bridge, vote, result) ==
    IF ~StartsWithGenerate(vote.vote_name[1]) THEN bridge
    ELSE IF vote.vote_name[1] # "generate" \/ Len(vote.vote_name) # 2
    THEN \* lines 169-172: not exactly the two parts `generate <preset>`
         Panicked(bridge)
    ELSE IF vote.vote_name[2] \notin DOMAIN get_configs
    THEN \* line 178: preset does not exist
         Panicked(bridge)
    ELSE generate_and_change_map(bridge, SeedOfReason(vote.vote_reason),
                                 get_configs[vote.vote_name[2]], result)

\* ServerBridge::handle_vote (lines 153-182)
handle_vote(bridge, result) ==
    IF bridge.pending_vote = None
    THEN \* line 154: expect("no pending vote")
         Panicked(bridge)
    ELSE HandleTaken([bridge EXCEPT !.pending_vote = None],
                     bridge.pending_vote[1], result)

\* ServerBridge::check_vote (lines 89-131) for one match of the regex: mat is
\* [message, vote_name, vote_reason]
check_vote(bridge, mat, result) ==
    IF mat.message = "Vote passed" THEN handle_vote(bridge, result)
    ELSE IF mat.message = "Vote failed" THEN [bridge EXCEPT !.pending_vote = None]
    ELSE [bridge EXCEPT !.pending_vote =
             Some([vote_name |-> mat.vote_name, vote_reason |-> mat.vote_reason])]

\* ServerBridge::check_auth (lines 134-151)
check_auth(bridge, data, result) ==
    IF data = "Enter password:" THEN send_rcon_cmd(bridge, "econ_pass")
    ELSE IF data = "Authentication successful"
    THEN generate_and_change_map([bridge EXCEPT !.authed = TRUE], "from_u64",
                                 get_configs.default, result)
    ELSE IF data = "Wrong password" THEN [bridge EXCEPT !.status = "exit"]
    ELSE bridge

\* the vote names and vote reasons of the called votes read
VoteNames ==
    {<<"generate", "default">>, <<"generate", "nopreset">>, <<"generate">>,
     <<"generated", "default">>, <<"kick", "player">>}

VoteReasons == {"No reason given", "42"}

\* the matches of the vote regex (line 91)
VoteMatches ==
    {[message |-> m, vote_name |-> << >>, vote_reason |-> ""] :
        m \in {"Vote passed", "Vote failed"}}
    \cup {[message |-> "called", vote_name |-> n, vote_reason |-> r] :
            n \in VoteNames, r \in VoteReasons}

AuthData == {"Enter password:", "Authentication successful", "Wrong password"}

(***************************************************************************)
(* SpecBridge: the loop of ServerBridge::start (lines 72-86), one console  *)
(* event per action.  fout is the bridge, fin the event handled last, fpc  *)
(* the number of events handled.                                           *)
(***************************************************************************)
BridgeInit ==
    /\ fpc = 0
    /\ fin = NoOut
    /\ fout = ServerBridgeNew
    /\ run = NoRun
    /\ run2 = NoRun

\* lines 79-80
CheckAuth ==
    /\ fpc \in 0 .. (MaxEvents - 1)
    /\ fout.status = "running"
    /\ ~fout.authed
    /\ \E data \in AuthData, result \in {"ok", "err"} :
          /\ fin' = [message |-> data, vote_name |-> << >>, vote_reason |-> ""]
          /\ fout' = check_auth(fout, data, result)
    /\ fpc' = fpc + 1
    /\ UNCHANGED <<run, run2>>

\* lines 81-82
CheckVote ==
    /\ fpc \in 0 .. (MaxEvents - 1)
    /\ fout.status = "running"
    /\ fout.authed
    /\ \E mat \in VoteMatches, result \in {"ok", "err"} :
          /\ fin' = mat
          /\ fout' = check_vote(fout, mat, result)
    /\ fpc' = fpc + 1
    /\ UNCHANGED <<run, run2>>

BridgeNext == CheckAuth \/ CheckVote

SpecBridge == BridgeInit /\ [][BridgeNext]_vars

(***************************************************************************)
(* The vote protocol of the bridge (SpecBridge)                            *)
(***************************************************************************)
\* how many times command occurs in the sequence of commands
CountOf(sent, command) == Cardinality({i \in 1 .. Len(sent) : sent[i] = command})

\* a called vote whose name starts with `generate` is pending
GenerateVotePending(bridge) ==
    /\ bridge.pending_vote # None
    /\ StartsWithGenerate(bridge.pending_vote[1].vote_name[1])

\* C30: for every sequence of console events received after authentication,
\* a map generation starts only when a 'Vote passed' event is observed while
\* a called vote whose name starts with 'generate' is pending; each called
\* vote triggers at most one generation; after every 'Vote passed' or 'Vote
\* failed' event no vote is pending; and 'change_map' is sent only after a
\* generation returned Ok and the map was exported, never after a
\* generation error.
C30_VoteProtocol ==
    [][fout.authed =>
          /\ fout'.generations > fout.generations =>
                /\ fin'.message = "Vote passed"
                /\ GenerateVotePending(fout)
                /\ fout'.generations = fout.generations + 1
                /\ fout'.pending_vote = None
          /\ fin'.message \in {"Vote passed", "Vote failed"} =>
                fout'.pending_vote = None
          /\ CountOf(fout'.sent, "change_map random_map")
                > CountOf(fout.sent, "change_map random_map") =>
                /\ fout'.generations = fout.generations + 1
                /\ fout'.last_result = "ok"
                /\ fout'.exports = fout.exports + 1
          /\ fout'.last_result = "err" /\ fout'.generations > fout.generations =>
                /\ fout'.exports = fout.exports
                /\ CountOf(fout'.sent, "change_map random_map")
                      = CountOf(fout.sent, "change_map random_map")]_vars

\* a passed generate vote has produced a map after the initial generation
\* had failed
C30_Witness ==
    /\ fout.status = "running"
    /\ fout.authed
    /\ fout.generations = 2
    /\ fout.last_result = "ok"
    /\ fin.message = "Vote passed"
    /\ CountOf(fout.sent, "say [GEN] Failed due to") = 1
    /\ CountOf(fout.sent, "change_map random_map") = 1

====
